---- MODULE Spec2Model ----
(***************************************************************************)
(* E-billing demo: vendor onboarding, invoice verification and matter      *)
(* assignment over four file-backed record stores.                         *)
(*   vendor_db        vendor_database.json                                 *)
(*   ap_notifications ap_notifications.json                                *)
(*   lawyers_db       internal_lawyers.json                                *)
(*   assignments_db   matter_assignments.json                              *)
(* run is the in-memory state of a run_case_assignment call in progress,   *)
(* ret the value returned (or the exception raised) by the last call.      *)
(***************************************************************************)
EXTENDS Integers, Sequences, FiniteSets, TLC

VARIABLES vendor_db, ap_notifications, lawyers_db, assignments_db, run, ret

vars == <<vendor_db, ap_notifications, lawyers_db, assignments_db, run, ret>>

(***************************************************************************)
(* Bounds of the model.                                                    *)
(***************************************************************************)
MaxVendors == 2
MaxRows == 2

(***************************************************************************)
(* JSON / CSV values.  A field of a record is absent, null, a string or a  *)
(* number.                                                                 *)
(***************************************************************************)
Absent == [kind |-> "absent", s |-> "", n |-> 0]
Null == [kind |-> "null", s |-> "", n |-> 0]
Str(s) == [kind |-> "str", s |-> s, n |-> 0]
Num(n) == [kind |-> "num", s |-> "", n |-> n]

\* dict.get(key, default)
Get(v, default) == IF v.kind = "absent" THEN default ELSE v

\* Python truth value of a present field: None, "" and 0 are false.
Truthy(v) ==
    CASE v.kind = "str" -> v.s # ""
      [] v.kind = "num" -> v.n # 0
      [] OTHER -> FALSE

\* The decimal numerals that occur in the inputs, with the number each denotes.
NumeralValue ==
    [s \in {"0", "100", "150", "200", "400", "500", "600", "650", "700", "800", "850"} |->
        CASE s = "0" -> 0
          [] s = "100" -> 100
          [] s = "150" -> 150
          [] s = "200" -> 200
          [] s = "400" -> 400
          [] s = "500" -> 500
          [] s = "600" -> 600
          [] s = "650" -> 650
          [] s = "700" -> 700
          [] s = "800" -> 800
          [] s = "850" -> 850]

\* float(v): a number converts to itself, a string is parsed (ValueError when
\* it is no numeral, the empty string included), None raises TypeError.
PyFloat(v) ==
    CASE v.kind = "num" -> [exc |-> "none", val |-> v.n]
      [] v.kind = "str" ->
            IF v.s \in DOMAIN NumeralValue
            THEN [exc |-> "none", val |-> NumeralValue[v.s]]
            ELSE [exc |-> "ValueError", val |-> 0]
      [] OTHER -> [exc |-> "TypeError", val |-> 0]

(***************************************************************************)
(* Firm names are sequences of characters, so that lower() and the         *)
(* substring test are computed.                                            *)
(***************************************************************************)
NoName == [kind |-> "absent", t |-> <<>>]
Name(t) == [kind |-> "str", t |-> t]

LowerChar(c) ==
    CASE c = "B" -> "b"
      [] c = "A" -> "a"
      [] c = "K" -> "k"
      [] c = "G" -> "g"
      [] OTHER -> c

\* str.lower()
Lower(t) == [i \in 1..Len(t) |-> LowerChar(t[i])]

\* a in b, for strings
Contains(a, b) ==
    \E i \in 0..(Len(b) - Len(a)) : SubSeq(b, i + 1, i + Len(a)) = a

(***************************************************************************)
(* Messages of errors and warnings: the text and the number formatted into *)
(* it, when there is one.                                                  *)
(***************************************************************************)
Msg(text, n) == [text |-> text, n |-> n]

Raised(exc) == [raised |-> exc]

(***************************************************************************)
(* Agent 1: validate_vendor                                                *)
(***************************************************************************)
required == <<"firm_name", "partner_rate", "associate_rate", "status", "payment_terms">>

\* field not in vendor or not vendor[field]
FieldMissing(vendor, field) ==
    IF field = "firm_name"
    THEN vendor.firm_name.kind = "absent" \/ vendor.firm_name.t = <<>>
    ELSE ~Truthy(vendor[field])

RECURSIVE RequiredErrors(_, _)
RequiredErrors(vendor, i) ==
    IF i > Len(required) THEN <<>>
    ELSE (IF FieldMissing(vendor, required[i])
          THEN <<Msg("Missing required field: " \o required[i], 0)>>
          ELSE <<>>) \o RequiredErrors(vendor, i + 1)

valid_terms == {"net_30", "net_45", "net_60"}

\* PartnerRateCheck with the cap compared by >= : a rate of exactly 800 warns.
PartnerRateCheck_CapInclusive(vendor) ==
    LET f == PyFloat(Get(vendor.partner_rate, Num(0)))
    IN  CASE f.exc = "TypeError" -> [exc |-> "TypeError", errors |-> <<>>, warnings |-> <<>>]
          [] f.exc = "ValueError" ->
                [exc |-> "none", errors |-> <<Msg("Partner rate must be a number", 0)>>,
                 warnings |-> <<>>]
          [] OTHER ->
                [exc |-> "none",
                 errors |-> IF f.val < 200
                            THEN <<Msg("Partner rate seems too low - please verify", f.val)>>
                            ELSE <<>>,
                 warnings |-> IF f.val >= 800
                              THEN <<Msg("Partner rate exceeds preferred cap of $800/hr", f.val)>>
                              ELSE <<>>]

\* The outcome of one try block around float(): the errors and warnings it
\* adds, or the exception it lets through.
PartnerRateCheck(vendor) ==
    LET f == PyFloat(Get(vendor.partner_rate, Num(0)))
    IN  CASE f.exc = "TypeError" -> [exc |-> "TypeError", errors |-> <<>>, warnings |-> <<>>]
          [] f.exc = "ValueError" ->
                [exc |-> "none", errors |-> <<Msg("Partner rate must be a number", 0)>>,
                 warnings |-> <<>>]
          [] OTHER ->
                [exc |-> "none",
                 errors |-> IF f.val < 200
                            THEN <<Msg("Partner rate seems too low - please verify", f.val)>>
                            ELSE <<>>,
                 warnings |-> IF f.val > 800
                              THEN <<Msg("Partner rate exceeds preferred cap of $800/hr", f.val)>>
                              ELSE <<>>]

AssociateRateCheck(vendor) ==
    LET f == PyFloat(Get(vendor.associate_rate, Num(0)))
    IN  CASE f.exc = "TypeError" -> [exc |-> "TypeError", errors |-> <<>>, warnings |-> <<>>]
          [] f.exc = "ValueError" ->
                [exc |-> "none", errors |-> <<Msg("Associate rate must be a number", 0)>>,
                 warnings |-> <<>>]
          [] OTHER ->
                [exc |-> "none", errors |-> <<>>,
                 warnings |-> IF f.val > 500
                              THEN <<Msg("Associate rate exceeds preferred cap of $500/hr", f.val)>>
                              ELSE <<>>]

StatusErrors(vendor) ==
    IF vendor.status \notin {Str("active"), Str("inactive")}
    THEN <<Msg("Status must be 'active' or 'inactive'", 0)>>
    ELSE <<>>

TermsErrors(vendor) ==
    IF vendor.payment_terms \notin {Str(t) : t \in valid_terms}
    THEN <<Msg("Payment terms must be one of: net_30, net_45, net_60", 0)>>
    ELSE <<>>

\* is_valid that lets warnings block.
IsValid_WarningsBlock(errors, warnings) == Len(errors) = 0 /\ Len(warnings) = 0

\* is_valid = len(errors) == 0
IsValid(errors, warnings) == Len(errors) = 0

validate_vendor(vendor) ==
    LET p == PartnerRateCheck(vendor)
        a == AssociateRateCheck(vendor)
    IN  IF p.exc # "none" THEN Raised(p.exc)
        ELSE IF a.exc # "none" THEN Raised(a.exc)
        ELSE LET errors == RequiredErrors(vendor, 1) \o p.errors \o a.errors
                             \o StatusErrors(vendor) \o TermsErrors(vendor)
                 warnings == p.warnings \o a.warnings
             IN  [raised |-> "none", is_valid |-> IsValid(errors, warnings),
                  errors |-> errors, warnings |-> warnings]

(***************************************************************************)
(* The vendor database file.                                               *)
(***************************************************************************)
NoVendorDb == [exists |-> FALSE, vendors |-> <<>>, next_id |-> 0]

VendorId(n) == [prefix |-> "VND-", n |-> n]

WithId(vendor, id) ==
    [firm_name |-> vendor.firm_name, partner_rate |-> vendor.partner_rate,
     associate_rate |-> vendor.associate_rate, paralegal_rate |-> vendor.paralegal_rate,
     status |-> vendor.status, payment_terms |-> vendor.payment_terms,
     vendor_id |-> id]

\* Load existing database or create one numbering from 1000.
LoadOrNewVendorDb_From1000 ==
    IF vendor_db.exists THEN vendor_db
    ELSE [exists |-> TRUE, vendors |-> <<>>, next_id |-> 1000]

\* Load existing database or create new
LoadOrNewVendorDb ==
    IF vendor_db.exists THEN vendor_db
    ELSE [exists |-> TRUE, vendors |-> <<>>, next_id |-> 1001]

(***************************************************************************)
(* Inputs of the vendor operations.                                        *)
(***************************************************************************)
Vendor(fn, pr, ar, plr, st, pt) ==
    [firm_name |-> fn, partner_rate |-> pr, associate_rate |-> ar,
     paralegal_rate |-> plr, status |-> st, payment_terms |-> pt]

Bak == <<"B", "a", "k">>
Ba == <<"B", "a">>
Go == <<"G", "o">>

\* Records handed to validate_vendor.
ValidateInputs ==
    { Vendor(fn, pr, ar, Str("200"), st, pt) :
        fn \in {NoName, Name(Bak)},
        pr \in {Absent, Null, Str(""), Str("abc"), Str("150"), Str("200"),
                Str("800"), Str("850"), Num(650)},
        ar \in {Absent, Null, Str("abc"), Str("400"), Str("500"), Str("600")},
        st \in {Absent, Str("active"), Str("pending")},
        pt \in {Absent, Str("net_30"), Str("net_90")} }

\* Records handed to save_vendor_to_database.
SaveInputs ==
    { Vendor(Name(Bak), Str("650"), Str("400"), Str("200"), Str("active"), Str("net_30")),
      Vendor(Name(Ba), Str("700"), Str("400"), Str("200"), Str("inactive"), Str("net_45")),
      Vendor(Name(Go), Str("850"), Str("600"), Str("200"), Str("active"), Str("net_60")),
      Vendor(Name(Go), Str("700"), Str("400"), Str(""), Str("active"), Str("net_30")),
      Vendor(Name(Go), Str("150"), Str("abc"), Absent, Str("active"), Str("net_90")),
      Vendor(NoName, Num(650), Num(400), Num(200), Str("active"), Str("net_30")) }

\* Rows of law_firms.csv: every value a string, a column possibly absent.
CsvRows ==
    { Vendor(Name(Bak), Str("650"), Str("400"), Str("200"), Str("active"), Str("net_30")),
      Vendor(Name(Ba), Str("150"), Str(""), Str("200"), Str("inactive"), Absent),
      Vendor(Name(Go), Str("850"), Str("600"), Str("200"), Str("pending"), Str("net_60")),
      Vendor(Name(Go), Str("abc"), Str("400"), Str("200"), Str("active"), Str("net_30")),
      Vendor(NoName, Str("700"), Str("400"), Str("200"), Str("active"), Str("net_30")) }

SeqsUpTo(S, n) == UNION { [1..k -> S] : k \in 0..n }

(***************************************************************************)
(* Agent 1: the tools                                                      *)
(***************************************************************************)
ValidateVendor(vendor) ==
    /\ run.pc = "idle"
    /\ ret' = [op |-> "validate_vendor", vendor |-> vendor, result |-> validate_vendor(vendor)]
    /\ UNCHANGED <<vendor_db, ap_notifications, lawyers_db, assignments_db, run>>

\* The file is written before the confirmation message reads
\* vendor['firm_name']: a record without a firm name is stored and the call
\* reports an error.
SaveVendorToDatabase(vendor) ==
    /\ run.pc = "idle"
    /\ LET db == LoadOrNewVendorDb
           id == VendorId(db.next_id)
       IN  /\ Len(db.vendors) < MaxVendors
           /\ vendor_db' = [exists |-> TRUE,
                            vendors |-> Append(db.vendors, WithId(vendor, id)),
                            next_id |-> db.next_id + 1]
           /\ ret' = [op |-> "save_vendor_to_database", vendor |-> vendor,
                      status |-> IF vendor.firm_name.kind = "absent"
                                 THEN "error" ELSE "success",
                      vendor_id |-> id]
    /\ UNCHANGED <<ap_notifications, lawyers_db, assignments_db, run>>

(***************************************************************************)
(* app.py: run_vendor_onboarding                                           *)
(***************************************************************************)
\* One pass of the loop over the rows; db is the local database, saved only
\* when no row raised.
RECURSIVE OnboardRows(_, _, _, _)
OnboardRows(rows, i, db, onboarded) ==
    IF i > Len(rows) THEN [raised |-> "none", db |-> db, onboarded |-> onboarded]
    ELSE LET vendor == rows[i]
             f == PyFloat(Get(vendor.partner_rate, Num(0)))
             warnings == IF f.exc = "none" /\ f.val > 800
                         THEN <<Msg("Partner rate exceeds $800 cap", f.val)>>
                         ELSE <<>>
             errors == IF vendor.status \notin {Str("active"), Str("inactive")}
                       THEN <<Msg("Invalid status", 0)>>
                       ELSE <<>>
             id == VendorId(db.next_id)
         IN  IF f.exc # "none" THEN [raised |-> f.exc, db |-> db, onboarded |-> onboarded]
             ELSE IF errors # <<>> THEN OnboardRows(rows, i + 1, db, onboarded)
             ELSE IF vendor.firm_name.kind = "absent"
                  THEN [raised |-> "KeyError", db |-> db, onboarded |-> onboarded]
             ELSE OnboardRows(rows, i + 1,
                      [exists |-> TRUE,
                       vendors |-> Append(db.vendors, WithId(vendor, id)),
                       next_id |-> db.next_id + 1],
                      Append(onboarded, [vendor_id |-> id, warnings |-> warnings]))

RunVendorOnboarding(rows) ==
    /\ run.pc = "idle"
    /\ LET r == OnboardRows(rows, 1, [exists |-> TRUE, vendors |-> <<>>, next_id |-> 1001], <<>>)
       IN  /\ vendor_db' = IF r.raised = "none" THEN r.db ELSE vendor_db
           /\ ret' = [op |-> "run_vendor_onboarding", rows |-> rows,
                      raised |-> r.raised, onboarded |-> r.onboarded]
    /\ UNCHANGED <<ap_notifications, lawyers_db, assignments_db, run>>

(***************************************************************************)
(* Words (role levels, case types, practice areas): the lowercase spelling *)
(* w, whether the text is written with capital letters, and whether it     *)
(* carries leading or trailing whitespace.                                 *)
(***************************************************************************)
NoWord == [kind |-> "absent", w |-> "", caps |-> FALSE, ws |-> FALSE]
NullWord == [kind |-> "null", w |-> "", caps |-> FALSE, ws |-> FALSE]
Word(w, caps, ws) == [kind |-> "str", w |-> w, caps |-> caps, ws |-> ws]
Plain(w) == Word(w, FALSE, FALSE)

\* str.lower() and str.strip() on a word
WLower(x) == [x EXCEPT !.caps = FALSE]
WStrip(x) == [x EXCEPT !.ws = FALSE]

(***************************************************************************)
(* Agent 2: lookup_vendor_rates                                            *)
(***************************************************************************)
NotFound(error) ==
    [found |-> FALSE, error |-> error, vendor_id |-> VendorId(0), status |-> Absent,
     contracted_rates |-> [partner |-> 0, associate |-> 0, paralegal |-> 0]]

\* vendor[key] of a stored record: KeyError when the key is absent
KeyErrorIn(vendor) ==
    \/ vendor.status.kind = "absent"
    \/ vendor.partner_rate.kind = "absent"
    \/ vendor.associate_rate.kind = "absent"
    \/ vendor.paralegal_rate.kind = "absent"
    \/ vendor.payment_terms.kind = "absent"

\* The first exception of the three float() conversions, "none" without one.
RatesExc(p, a, l) ==
    IF p.exc # "none" THEN p.exc ELSE IF a.exc # "none" THEN a.exc ELSE l.exc

\* The reply built for the first matching vendor; any exception is caught
\* and reported as found: False.
VendorReply(vendor) ==
    LET p == PyFloat(vendor.partner_rate)
        a == PyFloat(vendor.associate_rate)
        l == PyFloat(vendor.paralegal_rate)
    IN  IF KeyErrorIn(vendor) THEN NotFound("KeyError")
        ELSE IF RatesExc(p, a, l) # "none" THEN NotFound(RatesExc(p, a, l))
        ELSE [found |-> TRUE, error |-> "none", vendor_id |-> vendor.vendor_id,
              status |-> vendor.status,
              contracted_rates |-> [partner |-> p.val, associate |-> a.val,
                                    paralegal |-> l.val]]

RECURSIVE LookupFrom(_, _, _)
LookupFrom(vendors, i, firm_lower) ==
    IF i > Len(vendors) THEN NotFound("not found in database")
    ELSE IF vendors[i].firm_name.kind = "absent" THEN NotFound("KeyError")
    ELSE IF Contains(firm_lower, Lower(vendors[i].firm_name.t)) THEN VendorReply(vendors[i])
    ELSE LookupFrom(vendors, i + 1, firm_lower)

lookup_vendor_rates(firm_name) ==
    IF ~vendor_db.exists THEN NotFound("Vendor database not found. Run Agent 1 first.")
    ELSE LookupFrom(vendor_db.vendors, 1, Lower(firm_name))

(***************************************************************************)
(* Agent 2: verify_invoice                                                 *)
(***************************************************************************)
\* contracted.get(level, ...) falling back on the partner rate.
ContractedRate_DefaultPartner(contracted, level) ==
    CASE level = Plain("partner") -> contracted.partner
      [] level = Plain("associate") -> contracted.associate
      [] level = Plain("paralegal") -> contracted.paralegal
      [] OTHER -> contracted.partner

\* contracted.get(level, 0)
ContractedRate(contracted, level) ==
    CASE level = Plain("partner") -> contracted.partner
      [] level = Plain("associate") -> contracted.associate
      [] level = Plain("paralegal") -> contracted.paralegal
      [] OTHER -> 0

\* item.get("hours", 0) used as a number: None and strings raise TypeError
\* in the multiplication and in the comparisons.
HoursNumber(item) ==
    LET h == Get(item.hours, Num(0))
    IN  IF h.kind = "num" THEN [exc |-> "none", val |-> h.n]
        ELSE [exc |-> "TypeError", val |-> 0]

Rejected(invoice, reason) ==
    [invoice_id |-> invoice.invoice_id, status |-> "REJECTED", reason |-> reason,
     has_details |-> FALSE, discrepancies |-> <<>>, total_overcharge |-> 0,
     warnings |-> <<>>, invoice_amount |-> Absent]

ErrorResult(invoice, exc) ==
    [invoice_id |-> invoice.invoice_id, status |-> "ERROR", reason |-> exc,
     has_details |-> FALSE, discrepancies |-> <<>>, total_overcharge |-> 0,
     warnings |-> <<>>, invoice_amount |-> Absent]

\* The comparison taking a rate equal to the contract for an excess.
RateExceedsContract_OrEqual(billed_rate, contracted_rate) == billed_rate >= contracted_rate

\* if billed_rate > contracted_rate
RateExceedsContract(billed_rate, contracted_rate) == billed_rate > contracted_rate

\* The loop over the line items: acc carries discrepancies, warnings and
\* total_overcharge; an exception leaves the loop.
RECURSIVE VerifyItems(_, _, _, _)
VerifyItems(items, i, contracted, acc) ==
    IF i > Len(items) THEN acc
    ELSE LET item == items[i]
             rate == PyFloat(Get(item.rate, Num(0)))
             level == WLower(IF item.level.kind = "absent" THEN Plain("") ELSE item.level)
             contracted_rate == ContractedRate(contracted, level)
             hours == HoursNumber(item)
             over == RateExceedsContract(rate.val, contracted_rate)
             overcharge == (rate.val - contracted_rate) * hours.val
         IN  IF item.level.kind = "null" THEN [acc EXCEPT !.exc = "AttributeError"]
             ELSE IF rate.exc # "none" THEN [acc EXCEPT !.exc = rate.exc]
             ELSE IF hours.exc # "none" THEN [acc EXCEPT !.exc = hours.exc]
             ELSE VerifyItems(items, i + 1, contracted,
                    [exc |-> "none",
                     discrepancies |->
                        acc.discrepancies \o
                        (IF over
                         THEN <<[item |-> i, level |-> level, billed_rate |-> rate.val,
                                 contracted_rate |-> contracted_rate,
                                 overcharge_amount |-> overcharge]>>
                         ELSE <<>>),
                     total_overcharge |->
                        acc.total_overcharge + (IF over THEN overcharge ELSE 0),
                     warnings |->
                        acc.warnings \o
                        (IF hours.val > 10 /\ level = Plain("partner")
                         THEN <<Msg("High partner hours - consider reviewing", hours.val)>>
                         ELSE <<>>) \o
                        (IF hours.val > 20
                         THEN <<Msg("Excessive hours on single invoice - consider reviewing",
                                    hours.val)>>
                         ELSE <<>>)])

NoItemsYet == [exc |-> "none", discrepancies |-> <<>>, total_overcharge |-> 0, warnings |-> <<>>]

\* verify_invoice that flags on a positive total instead of on a non-empty
\* discrepancy list.
verify_invoice_FlagOnTotal(invoice, vendor) ==
    IF ~vendor.found THEN Rejected(invoice, "Vendor not found in database")
    ELSE IF vendor.status = Str("inactive") THEN Rejected(invoice, "Vendor is INACTIVE")
    ELSE LET r == VerifyItems(invoice.line_items, 1, vendor.contracted_rates, NoItemsYet)
         IN  IF r.exc # "none" THEN ErrorResult(invoice, r.exc)
             ELSE [invoice_id |-> invoice.invoice_id,
                   status |-> IF r.total_overcharge > 0 THEN "FLAGGED" ELSE "APPROVED",
                   reason |-> "", has_details |-> TRUE,
                   discrepancies |-> r.discrepancies,
                   total_overcharge |-> r.total_overcharge,
                   warnings |-> r.warnings,
                   invoice_amount |-> invoice.total_amount]

\* verify_invoice without the check of the vendor's status.
verify_invoice_NoInactiveCheck(invoice, vendor) ==
    IF ~vendor.found THEN Rejected(invoice, "Vendor not found in database")
    ELSE LET r == VerifyItems(invoice.line_items, 1, vendor.contracted_rates, NoItemsYet)
         IN  IF r.exc # "none" THEN ErrorResult(invoice, r.exc)
             ELSE [invoice_id |-> invoice.invoice_id,
                   status |-> IF r.discrepancies # <<>> THEN "FLAGGED" ELSE "APPROVED",
                   reason |-> "", has_details |-> TRUE,
                   discrepancies |-> r.discrepancies,
                   total_overcharge |-> r.total_overcharge,
                   warnings |-> r.warnings,
                   invoice_amount |-> invoice.total_amount]

\* verify_invoice that flags an invoice on its hours warnings as well.
verify_invoice_FlagOnWarnings(invoice, vendor) ==
    IF ~vendor.found THEN Rejected(invoice, "Vendor not found in database")
    ELSE IF vendor.status = Str("inactive") THEN Rejected(invoice, "Vendor is INACTIVE")
    ELSE LET r == VerifyItems(invoice.line_items, 1, vendor.contracted_rates, NoItemsYet)
         IN  IF r.exc # "none" THEN ErrorResult(invoice, r.exc)
             ELSE [invoice_id |-> invoice.invoice_id,
                   status |-> IF r.discrepancies # <<>> \/ r.warnings # <<>>
                              THEN "FLAGGED" ELSE "APPROVED",
                   reason |-> "", has_details |-> TRUE,
                   discrepancies |-> r.discrepancies,
                   total_overcharge |-> r.total_overcharge,
                   warnings |-> r.warnings,
                   invoice_amount |-> invoice.total_amount]

verify_invoice(invoice, vendor) ==
    IF ~vendor.found THEN Rejected(invoice, "Vendor not found in database")
    ELSE IF vendor.status = Str("inactive") THEN Rejected(invoice, "Vendor is INACTIVE")
    ELSE LET r == VerifyItems(invoice.line_items, 1, vendor.contracted_rates, NoItemsYet)
         IN  IF r.exc # "none" THEN ErrorResult(invoice, r.exc)
             ELSE [invoice_id |-> invoice.invoice_id,
                   status |-> IF r.discrepancies # <<>> THEN "FLAGGED" ELSE "APPROVED",
                   reason |-> "", has_details |-> TRUE,
                   discrepancies |-> r.discrepancies,
                   total_overcharge |-> r.total_overcharge,
                   warnings |-> r.warnings,
                   invoice_amount |-> invoice.total_amount]

(***************************************************************************)
(* Inputs of the invoice operations.                                       *)
(***************************************************************************)
MaxItems == 2
MaxInvoices == 2
MaxNotifications == 2

Item(level, rate, hours) == [level |-> level, rate |-> rate, hours |-> hours]

Invoice(id, fn, items, amount) ==
    [invoice_id |-> id, firm_name |-> fn, line_items |-> items, total_amount |-> amount]

LineItems ==
    { Item(Plain("partner"), Num(650), Num(12)),
      Item(Word("partner", TRUE, FALSE), Num(700), Num(10)),
      Item(Plain("counsel"), Str("100"), Num(2)),
      Item(Plain("associate"), Str("abc"), Num(1)),
      Item(Plain("paralegal"), Num(400), Num(0 - 3)),
      Item(NoWord, Num(0), Null) }

InvoiceNames == {Name(<<"b", "a">>), Name(<<"G", "O">>), Name(<<"k", "o">>), Name(<<>>)}

\* Invoices handed to lookup_vendor_rates and verify_invoice.
Invoices ==
    { Invoice("INV-1", fn, items, Num(1000)) :
        fn \in InvoiceNames, items \in SeqsUpTo(LineItems, MaxItems) }

\* Invoices of inbox/invoices.json.
InboxInvoices ==
    { Invoice("INV-1", Name(<<"b", "a">>), <<Item(Plain("partner"), Num(650), Num(12))>>, Num(1000)),
      Invoice("INV-2", Name(<<"B", "A", "K">>),
              <<Item(Word("partner", TRUE, FALSE), Num(700), Num(10)),
                Item(Plain("counsel"), Str("100"), Num(2))>>, Num(7200)),
      Invoice("INV-3", Name(<<"b", "a">>), <<Item(Plain("associate"), Str("abc"), Num(1))>>, Absent),
      Invoice("INV-4", NoName, <<Item(NoWord, Num(0), Null)>>, Num(0)),
      Invoice("INV-5", Name(<<"k", "o">>), <<>>, Num(50)),
      Invoice("INV-6", Name(<<"G", "O">>), <<Item(Plain("paralegal"), Num(400), Num(0 - 3))>>,
              Num(1200)) }

(***************************************************************************)
(* Agent 2: the tools                                                      *)
(***************************************************************************)
\* lookup_vendor_rates(invoice firm name), then verify_invoice on its reply
LookupAndVerify(invoice) ==
    /\ run.pc = "idle"
    /\ LET vendor == lookup_vendor_rates(invoice.firm_name.t)
       IN  ret' = [op |-> "verify_invoice", invoice |-> invoice, vendor |-> vendor,
                   result |-> verify_invoice(invoice, vendor)]
    /\ UNCHANGED <<vendor_db, ap_notifications, lawyers_db, assignments_db, run>>

NoNotifications == [exists |-> FALSE, notifications |-> <<>>]

NotificationId(n) == [prefix |-> "AP-", n |-> n]

\* The action releasing the payment of a flagged invoice as well.
ActionRequired_FlaggedReleased(status) ==
    IF status \in {"APPROVED", "FLAGGED"} THEN "RELEASE_PAYMENT" ELSE "HOLD_PAYMENT"

\* "RELEASE_PAYMENT" if status == "APPROVED" else "HOLD_PAYMENT"
ActionRequired(status) == IF status = "APPROVED" THEN "RELEASE_PAYMENT" ELSE "HOLD_PAYMENT"

\* send_ap_notification on the last verification result.  The file is written
\* before the message is formatted; formatting an APPROVED result without an
\* invoice amount raises, reported as notification_sent: False.
SendApNotification ==
    /\ run.pc = "idle"
    /\ ret.op = "verify_invoice"
    /\ Len(ap_notifications.notifications) < MaxNotifications
    /\ LET result == ret.result
           id == NotificationId(Len(ap_notifications.notifications) + 1)
           notification ==
               [notification_id |-> id, invoice_id |-> result.invoice_id,
                status |-> result.status,
                action_required |-> ActionRequired(result.status),
                discrepancies |-> result.discrepancies,
                total_overcharge |-> result.total_overcharge]
       IN  /\ ap_notifications' =
                 [exists |-> TRUE,
                  notifications |-> Append(ap_notifications.notifications, notification)]
           /\ ret' = [op |-> "send_ap_notification", result |-> result,
                      notification_sent |->
                          ~(result.status = "APPROVED" /\ result.invoice_amount.kind # "num"),
                      notification_id |-> id]
    /\ UNCHANGED <<vendor_db, lawyers_db, assignments_db, run>>

(***************************************************************************)
(* app.py: run_invoice_verification                                        *)
(***************************************************************************)
\* for v in vendor_db["vendors"]: the index of the first vendor whose name
\* contains firm_lower, 0 when there is none; v["firm_name"] of a record
\* without the key raises KeyError.
RECURSIVE FirstVendor(_, _, _)
FirstVendor(vendors, i, firm_lower) ==
    IF i > Len(vendors) THEN [exc |-> "none", index |-> 0]
    ELSE IF vendors[i].firm_name.kind = "absent" THEN [exc |-> "KeyError", index |-> 0]
    ELSE IF Contains(firm_lower, Lower(vendors[i].firm_name.t)) THEN [exc |-> "none", index |-> i]
    ELSE FirstVendor(vendors, i + 1, firm_lower)

\* The loop over the line items of one invoice.  hours is multiplied only
\* when the rate exceeds the contract, and is never compared.
RECURSIVE AppItems(_, _, _, _)
AppItems(items, i, contracted_rates, acc) ==
    IF i > Len(items) THEN acc
    ELSE LET item == items[i]
             rate == PyFloat(Get(item.rate, Num(0)))
             level == WLower(IF item.level.kind = "absent" THEN Plain("") ELSE item.level)
             contracted_rate == ContractedRate(contracted_rates, level)
             hours == HoursNumber(item)
             over == RateExceedsContract(rate.val, contracted_rate)
             overcharge == (rate.val - contracted_rate) * hours.val
         IN  IF item.level.kind = "null" THEN [acc EXCEPT !.exc = "AttributeError"]
             ELSE IF rate.exc # "none" THEN [acc EXCEPT !.exc = rate.exc]
             ELSE IF over /\ hours.exc # "none" THEN [acc EXCEPT !.exc = hours.exc]
             ELSE AppItems(items, i + 1, contracted_rates,
                    [exc |-> "none",
                     discrepancies |->
                        acc.discrepancies \o
                        (IF over
                         THEN <<[item |-> i, level |-> level, billed_rate |-> rate.val,
                                 contracted_rate |-> contracted_rate,
                                 overcharge_amount |-> overcharge]>>
                         ELSE <<>>),
                     total_overcharge |->
                        acc.total_overcharge + (IF over THEN overcharge ELSE 0),
                     warnings |-> <<>>])

NoResults == [exc |-> "none", notifications |-> <<>>, approved |-> <<>>, flagged |-> <<>>,
              rejected |-> <<>>]

AppRejected(acc, invoice, reason) ==
    [acc EXCEPT
        !.rejected = Append(@, invoice.invoice_id),
        !.notifications =
            Append(@, [notification_id |-> NotificationId(Len(acc.notifications) + 1),
                       invoice_id |-> invoice.invoice_id, status |-> "REJECTED",
                       action |-> "DO_NOT_PAY", reason |-> reason,
                       discrepancies |-> <<>>, total_overcharge |-> 0])]

AppVerified(acc, invoice, r) ==
    LET flagged == r.discrepancies # <<>>
        notification ==
            [notification_id |-> NotificationId(Len(acc.notifications) + 1),
             invoice_id |-> invoice.invoice_id,
             status |-> IF flagged THEN "FLAGGED" ELSE "APPROVED",
             action |-> IF flagged THEN "HOLD_PAYMENT" ELSE "RELEASE_PAYMENT",
             discrepancies |-> r.discrepancies,
             total_overcharge |-> r.total_overcharge]
    IN  IF flagged
        THEN [acc EXCEPT !.flagged = Append(@, invoice.invoice_id),
                         !.notifications = Append(@, notification)]
        ELSE [acc EXCEPT !.approved = Append(@, invoice.invoice_id),
                         !.notifications = Append(@, notification)]

\* The loop over the invoices of the inbox; an exception leaves the function
\* before save_json.
RECURSIVE AppInvoices(_, _, _, _)
AppInvoices(invoices, i, vendors, acc) ==
    IF i > Len(invoices) THEN acc
    ELSE LET invoice == invoices[i]
             firm_name == IF invoice.firm_name.kind = "absent" THEN <<>>
                          ELSE invoice.firm_name.t
             m == FirstVendor(vendors, 1, Lower(firm_name))
         IN  IF m.exc # "none" THEN [acc EXCEPT !.exc = m.exc]
             ELSE IF m.index = 0
                  THEN AppInvoices(invoices, i + 1, vendors,
                                   AppRejected(acc, invoice, "Vendor not in database"))
             ELSE LET vendor == vendors[m.index]
                      p == PyFloat(Get(vendor.partner_rate, Num(0)))
                      a == PyFloat(Get(vendor.associate_rate, Num(0)))
                      l == PyFloat(Get(vendor.paralegal_rate, Num(0)))
                      r == AppItems(invoice.line_items, 1,
                                    [partner |-> p.val, associate |-> a.val,
                                     paralegal |-> l.val], NoItemsYet)
                  IN  IF vendor.status = Str("inactive")
                      THEN AppInvoices(invoices, i + 1, vendors,
                                       AppRejected(acc, invoice, "Vendor is INACTIVE"))
                      ELSE IF RatesExc(p, a, l) # "none"
                           THEN [acc EXCEPT !.exc = RatesExc(p, a, l)]
                      ELSE IF r.exc # "none" THEN [acc EXCEPT !.exc = r.exc]
                      ELSE AppInvoices(invoices, i + 1, vendors, AppVerified(acc, invoice, r))

RunInvoiceVerification(invoices) ==
    /\ run.pc = "idle"
    /\ IF ~vendor_db.exists
       THEN /\ ret' = [op |-> "run_invoice_verification", invoices |-> invoices,
                       raised |-> "none", error |-> "Run Agent 1 first",
                       approved |-> <<>>, flagged |-> <<>>, rejected |-> <<>>,
                       notifications |-> <<>>]
            /\ UNCHANGED ap_notifications
       ELSE LET r == AppInvoices(invoices, 1, vendor_db.vendors, NoResults)
            IN  /\ ret' = [op |-> "run_invoice_verification", invoices |-> invoices,
                           raised |-> r.exc, error |-> "",
                           approved |-> IF r.exc = "none" THEN r.approved ELSE <<>>,
                           flagged |-> IF r.exc = "none" THEN r.flagged ELSE <<>>,
                           rejected |-> IF r.exc = "none" THEN r.rejected ELSE <<>>,
                           notifications |->
                               IF r.exc = "none" THEN r.notifications ELSE <<>>]
                /\ ap_notifications' =
                      IF r.exc = "none"
                      THEN [exists |-> TRUE, notifications |-> r.notifications]
                      ELSE ap_notifications
    /\ UNCHANGED <<vendor_db, lawyers_db, assignments_db, run>>

(***************************************************************************)
(* Agent 3: find_best_lawyer                                               *)
(***************************************************************************)
Lawyer(id, name, areas, status, cur, max) ==
    [lawyer_id |-> id, name |-> name, practice_areas |-> areas, status |-> status,
     current_caseload |-> cur, max_caseload |-> max]

\* [pa.lower() for pa in lawyer["practice_areas"]]
LoweredAreas(lawyer) ==
    { WLower(lawyer.practice_areas[k]) : k \in 1..Len(lawyer.practice_areas) }

Available(lawyer) == lawyer.max_caseload - lawyer.current_caseload

\* The checks before the practice-area test, letting a full lawyer through.
Skipped_FullAllowed(lawyer) == lawyer.status # "active" \/ Available(lawyer) < 0

\* The checks both selection loops make before the practice-area test.
Skipped(lawyer) == lawyer.status # "active" \/ Available(lawyer) <= 0

Candidate(lawyer) ==
    [lawyer_id |-> lawyer.lawyer_id, name |-> lawyer.name,
     available_capacity |-> Available(lawyer),
     current_caseload |-> lawyer.current_caseload]

\* The practice-area test passing every lawyer.
AreaMatches_Always(case_type_lower, lawyer) == TRUE

\* The practice-area test of find_best_lawyer: the literal case type only.
AreaMatches(case_type_lower, lawyer) == case_type_lower \in LoweredAreas(lawyer)

RECURSIVE CandidatesFrom(_, _, _)
CandidatesFrom(lawyers, i, case_type_lower) ==
    IF i > Len(lawyers) THEN <<>>
    ELSE (IF ~Skipped(lawyers[i]) /\ AreaMatches(case_type_lower, lawyers[i])
          THEN <<Candidate(lawyers[i])>>
          ELSE <<>>) \o CandidatesFrom(lawyers, i + 1, case_type_lower)

\* The sort key with the two orders exchanged.
SortKey_Exchanged(c, priority) ==
    IF priority = "high" THEN c.current_caseload ELSE 0 - c.available_capacity

\* list.sort(key=...): a stable sort.  Key(c) is the sort key, already negated
\* for reverse=True, which keeps equal elements in their original order.
SortKey(c, priority) ==
    IF priority = "high" THEN 0 - c.available_capacity ELSE c.current_caseload

\* An insertion that puts an element before the elements of equal key.
RECURSIVE InsertSorted_BeforeEqual(_, _, _)
InsertSorted_BeforeEqual(sorted, c, priority) ==
    IF sorted = <<>> THEN <<c>>
    ELSE IF SortKey(c, priority) <= SortKey(Head(sorted), priority)
         THEN <<c>> \o sorted
         ELSE <<Head(sorted)>> \o InsertSorted_BeforeEqual(Tail(sorted), c, priority)

RECURSIVE InsertSorted(_, _, _)
InsertSorted(sorted, c, priority) ==
    IF sorted = <<>> THEN <<c>>
    ELSE IF SortKey(c, priority) < SortKey(Head(sorted), priority)
         THEN <<c>> \o sorted
         ELSE <<Head(sorted)>> \o InsertSorted(Tail(sorted), c, priority)

RECURSIVE SortCandidates(_, _)
SortCandidates(candidates, priority) ==
    IF candidates = <<>> THEN <<>>
    ELSE InsertSorted(SortCandidates(SubSeq(candidates, 1, Len(candidates) - 1), priority),
                      candidates[Len(candidates)], priority)

NoCandidate == [lawyer_id |-> "", name |-> "", available_capacity |-> 0, current_caseload |-> 0]

find_best_lawyer(case_type, priority) ==
    LET case_type_lower == WStrip(WLower(case_type))
        candidates == CandidatesFrom(lawyers_db.lawyers, 1, case_type_lower)
        sorted == SortCandidates(candidates, priority)
    IN  IF candidates = <<>>
        THEN [found |-> FALSE, recommended_lawyer |-> NoCandidate, other_options |-> <<>>]
        ELSE [found |-> TRUE, recommended_lawyer |-> sorted[1],
              other_options |-> SubSeq(sorted, 2, IF Len(sorted) < 3 THEN Len(sorted) ELSE 3)]

(***************************************************************************)
(* Inputs of the matter operations.                                        *)
(***************************************************************************)
MaxMatters == 2
MaxAssignments == 2

Matter(id, case_type, priority) ==
    [matter_id |-> id, case_type |-> case_type, priority |-> priority]

Matters ==
    { Matter("MTR-1", Plain("patent_infringement"), Str("high")),
      Matter("MTR-2", Word("litigation", TRUE, FALSE), Str("medium")),
      Matter("MTR-3", Word("ip_trademark", FALSE, TRUE), Str("low")),
      Matter("MTR-4", Plain("antitrust"), Absent) }

CaseTypes == { m.case_type : m \in Matters }

LawyerIds == {"LAW-001", "LAW-002", "LAW-003", "LAW-404"}

\* internal_lawyers.json as the operations may find it: three lawyers, the
\* third possibly on leave, each with no matter yet or with a full caseload.
InitialRosters ==
    { <<Lawyer("LAW-001", "Torres", a1, "active", c1, 2),
        Lawyer("LAW-002", "Patel", a2, "active", c2, 1),
        Lawyer("LAW-003", "Nakamura", <<Plain("litigation"), Plain("ip_trademark")>>, s3, c3, 2)>> :
        a1 \in {<<Plain("litigation"), Plain("patent_infringement")>>, <<Plain("litigation")>>},
        a2 \in {<<Word("ip_trademark", TRUE, FALSE)>>, <<Plain("m&a")>>},
        s3 \in {"active", "on_leave"},
        c1 \in {0, 2}, c2 \in {0, 1}, c3 \in {0, 2} }

(***************************************************************************)
(* Agent 3: the tools                                                      *)
(***************************************************************************)
\* lawyer["available_capacity"] = ...; lawyer["is_available"] = ...
WithAvailability(lawyer) ==
    [lawyer_id |-> lawyer.lawyer_id, name |-> lawyer.name,
     practice_areas |-> lawyer.practice_areas, status |-> lawyer.status,
     current_caseload |-> lawyer.current_caseload, max_caseload |-> lawyer.max_caseload,
     available_capacity |-> Available(lawyer),
     is_available |-> (lawyer.status = "active" /\ Available(lawyer) > 0)]

\* The derived fields are added to the records read, which are returned and
\* not written back.
GetInternalLawyers ==
    /\ run.pc = "idle"
    /\ LET lawyers == [k \in 1..Len(lawyers_db.lawyers) |->
                          WithAvailability(lawyers_db.lawyers[k])]
       IN  ret' = [op |-> "get_internal_lawyers",
                   total_lawyers |-> Len(lawyers),
                   available_lawyers |->
                       Cardinality({k \in 1..Len(lawyers) : lawyers[k].is_available}),
                   lawyers |-> lawyers]
    /\ UNCHANGED <<vendor_db, ap_notifications, lawyers_db, assignments_db, run>>

FindBestLawyer(case_type, priority) ==
    /\ run.pc = "idle"
    /\ ret' = [op |-> "find_best_lawyer", case_type |-> case_type, priority |-> priority,
               result |-> find_best_lawyer(case_type, priority)]
    /\ UNCHANGED <<vendor_db, ap_notifications, lawyers_db, assignments_db, run>>

NoAssignments == [exists |-> FALSE, assignments |-> <<>>]

AssignmentId(n) == [prefix |-> "ASN-", n |-> n]

\* for i, l in enumerate(lawyers): the index of the first lawyer with the id,
\* 0 when there is none
RECURSIVE LawyerIndex(_, _, _)
LawyerIndex(lawyers, i, lawyer_id) ==
    IF i > Len(lawyers) THEN 0
    ELSE IF lawyers[i].lawyer_id = lawyer_id THEN i
    ELSE LawyerIndex(lawyers, i + 1, lawyer_id)

\* current_caseload += 1 on every lawyer
Incremented_Everyone(lawyers, index) ==
    [k \in 1..Len(lawyers) |-> [lawyers[k] EXCEPT !.current_caseload = @ + 1]]

\* current_caseload += 2
Incremented_ByTwo(lawyers, index) ==
    [lawyers EXCEPT ![index].current_caseload = @ + 2]

\* current_caseload += 1
Incremented(lawyers, index) ==
    [lawyers EXCEPT ![index].current_caseload = @ + 1]

AssignMatterToLawyer(matter, lawyer_id) ==
    /\ run.pc = "idle"
    /\ Len(assignments_db.assignments) < MaxAssignments
    /\ LET lawyer_index == LawyerIndex(lawyers_db.lawyers, 1, lawyer_id)
           id == AssignmentId(Len(assignments_db.assignments) + 1)
           assignment ==
               [assignment_id |-> id, matter_id |-> matter.matter_id,
                case_type |-> matter.case_type, priority |-> matter.priority,
                assigned_to |-> [lawyer_id |-> lawyer_id,
                                 name |-> lawyers_db.lawyers[lawyer_index].name],
                status |-> "active"]
       IN  IF lawyer_index = 0
           THEN /\ ret' = [op |-> "assign_matter_to_lawyer", matter |-> matter,
                           lawyer_id |-> lawyer_id, success |-> FALSE,
                           assignment_id |-> AssignmentId(0)]
                /\ UNCHANGED <<assignments_db, lawyers_db>>
           ELSE /\ assignments_db' =
                      [exists |-> TRUE,
                       assignments |-> Append(assignments_db.assignments, assignment)]
                /\ lawyers_db' = [lawyers |-> Incremented(lawyers_db.lawyers, lawyer_index)]
                /\ ret' = [op |-> "assign_matter_to_lawyer", matter |-> matter,
                           lawyer_id |-> lawyer_id, success |-> TRUE,
                           assignment_id |-> id]
    /\ UNCHANGED <<vendor_db, ap_notifications, run>>

\* assign_matter_to_lawyer when open(..., 'w') of one of its two files raises
\* (the file cannot be written): the log is written first, the roster
\* second, and the handler at the end returns success: False.
AssignMatterToLawyerWriteFails(matter, lawyer_id, file) ==
    /\ run.pc = "idle"
    /\ Len(assignments_db.assignments) < MaxAssignments
    /\ LET lawyer_index == LawyerIndex(lawyers_db.lawyers, 1, lawyer_id)
           id == AssignmentId(Len(assignments_db.assignments) + 1)
           assignment ==
               [assignment_id |-> id, matter_id |-> matter.matter_id,
                case_type |-> matter.case_type, priority |-> matter.priority,
                assigned_to |-> [lawyer_id |-> lawyer_id,
                                 name |-> lawyers_db.lawyers[lawyer_index].name],
                status |-> "active"]
       IN  /\ assignments_db' =
                 IF lawyer_index = 0 \/ file = "assignments"
                 THEN assignments_db
                 ELSE [exists |-> TRUE,
                       assignments |-> Append(assignments_db.assignments, assignment)]
           /\ ret' = [op |-> "assign_matter_to_lawyer", matter |-> matter,
                      lawyer_id |-> lawyer_id, success |-> FALSE,
                      assignment_id |-> AssignmentId(0)]
    /\ UNCHANGED <<vendor_db, ap_notifications, lawyers_db, run>>

(***************************************************************************)
(* app.py: run_case_assignment.  The call is modelled one matter at a      *)
(* time: run holds its local variables between the iterations of the loop; *)
(* no other operation runs meanwhile (the program is single-threaded).     *)
(***************************************************************************)
Idle == [pc |-> "idle", matters |-> <<>>, i |-> 0, lawyers |-> <<>>, assignments |-> <<>>,
         assigned |-> <<>>, unassigned |-> <<>>]

area_mapping ==
    [ct \in {Plain("litigation"), Plain("patent_infringement"), Plain("ip_trademark"),
             Plain("m&a"), Plain("employment"), Plain("regulatory"),
             Plain("contract_review"), Plain("real_estate")} |->
        CASE ct = Plain("patent_infringement") ->
                <<Plain("patent_infringement"), Plain("ip_trademark")>>
          [] ct = Plain("ip_trademark") ->
                <<Plain("ip_trademark"), Plain("patent_infringement")>>
          [] OTHER -> <<ct>>]

\* area_mapping.get(case_type, [case_type])
SearchAreas(case_type) ==
    IF case_type \in DOMAIN area_mapping THEN area_mapping[case_type] ELSE <<case_type>>

\* for area in search_areas: if area in [pa.lower() ...]
MatchedArea(search_areas, lawyer) ==
    \E k \in 1..Len(search_areas) : search_areas[k] \in LoweredAreas(lawyer)

RECURSIVE AppCandidatesFrom(_, _, _)
AppCandidatesFrom(lawyers, i, search_areas) ==
    IF i > Len(lawyers) THEN <<>>
    ELSE (IF ~Skipped(lawyers[i]) /\ MatchedArea(search_areas, lawyers[i])
          THEN <<Candidate(lawyers[i])>>
          ELSE <<>>) \o AppCandidatesFrom(lawyers, i + 1, search_areas)

\* The loop over the lawyers leaving the caseloads as they are.
ZeroCaseloads_Kept(lawyers) == lawyers

\* for l in lawyers_db["lawyers"]: l["current_caseload"] = 0
ZeroCaseloads(lawyers) ==
    [k \in 1..Len(lawyers) |-> [lawyers[k] EXCEPT !.current_caseload = 0]]

\* One iteration of the loop over the matters, on the local state r.
ProcessMatter(r) ==
    LET matter == r.matters[r.i]
        case_type == WLower(IF matter.case_type.kind = "absent" THEN Plain("")
                            ELSE matter.case_type)
        priority == IF matter.priority.kind = "absent" THEN "medium" ELSE matter.priority.s
        candidates == AppCandidatesFrom(r.lawyers, 1, SearchAreas(case_type))
        best_lawyer == SortCandidates(candidates, priority)[1]
        assignment ==
            [assignment_id |-> AssignmentId(Len(r.assignments) + 1),
             matter_id |-> matter.matter_id, case_type |-> case_type,
             priority |-> Str(priority),
             assigned_to |-> [lawyer_id |-> best_lawyer.lawyer_id, name |-> best_lawyer.name],
             status |-> "active"]
    IN  IF candidates # <<>>
        THEN [r EXCEPT
                !.i = @ + 1,
                !.assignments = Append(@, assignment),
                !.lawyers = Incremented(@, LawyerIndex(r.lawyers, 1, best_lawyer.lawyer_id)),
                !.assigned = Append(@, [matter_id |-> matter.matter_id,
                                        assigned_to |-> best_lawyer.lawyer_id])]
        ELSE [r EXCEPT !.i = @ + 1, !.unassigned = Append(@, matter.matter_id)]

\* save_json(ASSIGNMENTS_DB_PATH, ...); save_json(LAWYERS_DB_PATH, ...); return results
Finish(r) ==
    /\ assignments_db' = [exists |-> TRUE, assignments |-> r.assignments]
    /\ lawyers_db' = [lawyers |-> r.lawyers]
    /\ ret' = [op |-> "run_case_assignment", matters |-> r.matters,
               assigned |-> r.assigned, unassigned |-> r.unassigned]
    /\ run' = Idle

\* The call up to the loop: read matters.csv and the roster, zero the
\* caseloads in memory.  An empty matters.csv goes straight to the saves.
RunCaseAssignment(matters) ==
    /\ run.pc = "idle"
    /\ LET r == [pc |-> "loop", matters |-> matters, i |-> 1,
                 lawyers |-> ZeroCaseloads(lawyers_db.lawyers), assignments |-> <<>>,
                 assigned |-> <<>>, unassigned |-> <<>>]
       IN  IF matters = <<>>
           THEN Finish(r)
           ELSE /\ run' = r
                /\ UNCHANGED <<lawyers_db, assignments_db, ret>>
    /\ UNCHANGED <<vendor_db, ap_notifications>>

\* One iteration; the last one is followed by the saves and the return.
RunCaseAssignmentStep ==
    /\ run.pc = "loop"
    /\ LET r == ProcessMatter(run)
       IN  IF r.i > Len(r.matters)
           THEN Finish(r)
           ELSE /\ run' = r
                /\ UNCHANGED <<lawyers_db, assignments_db, ret>>
    /\ UNCHANGED <<vendor_db, ap_notifications>>

(***************************************************************************)
(* app.py: reset_demo_data                                                 *)
(***************************************************************************)
ResetDemoData ==
    /\ run.pc = "idle"
    /\ vendor_db' = NoVendorDb
    /\ assignments_db' = NoAssignments
    /\ ap_notifications' = NoNotifications
    /\ lawyers_db' = [lawyers |-> ZeroCaseloads(lawyers_db.lawyers)]
    /\ ret' = [op |-> "reset_demo_data"]
    /\ UNCHANGED run

(***************************************************************************)
(* Specifications.                                                         *)
(***************************************************************************)
DefaultRoster ==
    <<Lawyer("LAW-001", "Torres", <<Plain("litigation"), Plain("patent_infringement")>>,
             "active", 0, 2),
      Lawyer("LAW-002", "Patel", <<Word("ip_trademark", TRUE, FALSE)>>, "active", 0, 1),
      Lawyer("LAW-003", "Nakamura", <<Plain("litigation"), Plain("ip_trademark")>>,
             "on_leave", 0, 2)>>

NothingYet == [op |-> "none"]

\* A fresh checkout: no vendor database, no notifications, no assignments.
InitVendor ==
    /\ vendor_db = NoVendorDb
    /\ ap_notifications = NoNotifications
    /\ lawyers_db = [lawyers |-> DefaultRoster]
    /\ assignments_db = NoAssignments
    /\ run = Idle
    /\ ret = NothingYet

\* validate_vendor reads no store: one call on each input record.
NextValidate ==
    /\ ret = NothingYet
    /\ \E vendor \in ValidateInputs : ValidateVendor(vendor)

SpecValidate == InitVendor /\ [][NextValidate]_vars

\* Vendor onboarding: any sequence of the operations that write the vendor
\* database.
NextVendor ==
    \/ \E vendor \in SaveInputs : SaveVendorToDatabase(vendor)
    \/ \E rows \in SeqsUpTo(CsvRows, MaxRows) : RunVendorOnboarding(rows)
    \/ ResetDemoData

SpecVendor == InitVendor /\ [][NextVendor]_vars

\* The database save_vendor_to_database leaves after the given records.
RECURSIVE SavedVendors(_, _)
SavedVendors(records, i) ==
    IF i > Len(records) THEN <<>>
    ELSE <<WithId(records[i], VendorId(1000 + i))>> \o SavedVendors(records, i + 1)

VendorDbs ==
    {NoVendorDb} \cup
    { [exists |-> TRUE, vendors |-> SavedVendors(records, 1), next_id |-> 1001 + Len(records)] :
        records \in SeqsUpTo(SaveInputs, MaxVendors) }

\* Invoice verification over a vendor database left by onboarding.
InitInvoice ==
    /\ vendor_db \in VendorDbs
    /\ ap_notifications = NoNotifications
    /\ lawyers_db = [lawyers |-> DefaultRoster]
    /\ assignments_db = NoAssignments
    /\ run = Idle
    /\ ret = NothingYet

\* The verdict on an invoice depends on the vendor database and the invoice
\* only: one verification, by the tools or by the dashboard, on each database.
NextInvoice ==
    \/ \E invoice \in Invoices :
          ret = NothingYet /\ LookupAndVerify(invoice)
    \/ \E invoices \in SeqsUpTo(InboxInvoices, MaxInvoices) :
          ret = NothingYet /\ RunInvoiceVerification(invoices)

SpecInvoice == InitInvoice /\ [][NextInvoice]_vars

\* Lawyer selection over a roster with any caseloads the tools can leave
\* (assign_matter_to_lawyer can push a caseload past max_caseload).
InitSelect ==
    /\ vendor_db = NoVendorDb
    /\ ap_notifications = NoNotifications
    /\ lawyers_db \in
          { [lawyers |-> [k \in 1..3 |-> [roster[k] EXCEPT !.current_caseload = c[k]]]] :
              roster \in InitialRosters, c \in [1..3 -> 0..3] }
    /\ assignments_db = NoAssignments
    /\ run = Idle
    /\ ret = NothingYet

\* One selection on each roster: a find_best_lawyer call, or a whole
\* run_case_assignment.
NextSelect ==
    \/ \E case_type \in CaseTypes, priority \in {"high", "medium"} :
          ret = NothingYet /\ FindBestLawyer(case_type, priority)
    \/ \E matters \in SeqsUpTo(Matters, MaxMatters) :
          ret = NothingYet /\ RunCaseAssignment(matters)
    \/ RunCaseAssignmentStep

SpecSelect == InitSelect /\ [][NextSelect]_vars

\* The rosters in which the first two lawyers hold the practice areas of
\* DefaultRoster.
AssignRosters ==
    { roster \in InitialRosters :
        /\ roster[1].practice_areas = DefaultRoster[1].practice_areas
        /\ roster[2].practice_areas = DefaultRoster[2].practice_areas }

\* The matters the agent hands to assign_matter_to_lawyer.
ToolMatters == { m \in Matters : m.matter_id \in {"MTR-1", "MTR-4"} }

\* Matter assignment: any sequence of the operations that write the roster
\* and the assignment log.
InitAssign ==
    /\ vendor_db = NoVendorDb
    /\ ap_notifications = NoNotifications
    /\ lawyers_db \in { [lawyers |-> roster] : roster \in AssignRosters }
    /\ assignments_db = NoAssignments
    /\ run = Idle
    /\ ret = NothingYet

NextAssign ==
    \/ GetInternalLawyers
    \/ \E matter \in ToolMatters, lawyer_id \in LawyerIds :
          AssignMatterToLawyer(matter, lawyer_id)
    \/ \E matters \in SeqsUpTo(Matters, MaxMatters) : RunCaseAssignment(matters)
    \/ RunCaseAssignmentStep
    \/ ResetDemoData

SpecAssign == InitAssign /\ [][NextAssign]_vars

\* Matter assignment after the reset both demos make first: no assignment
\* log, every caseload at zero.
InitFresh ==
    /\ InitAssign
    /\ \A k \in 1..Len(lawyers_db.lawyers) : lawyers_db.lawyers[k].current_caseload = 0

SpecFresh == InitFresh /\ [][NextAssign]_vars

\* The assignment tool with files that may refuse to be written.
NextPersist ==
    \/ \E matter \in ToolMatters, lawyer_id \in LawyerIds :
          AssignMatterToLawyer(matter, lawyer_id)
    \/ \E matter \in ToolMatters, lawyer_id \in LawyerIds, file \in {"assignments", "lawyers"} :
          AssignMatterToLawyerWriteFails(matter, lawyer_id, file)

SpecPersist == InitAssign /\ [][NextPersist]_vars

\* The dashboard's assigner run again and again, the demo data reset before
\* each run.
NextRerun ==
    \/ ResetDemoData
    \/ \E matters \in SeqsUpTo(Matters, MaxMatters) :
          ret.op = "reset_demo_data" /\ RunCaseAssignment(matters)
    \/ RunCaseAssignmentStep

SpecRerun == InitAssign /\ [][NextRerun]_vars

\* The vendor databases holding the first two vendors of SaveInputs only:
\* an active firm and an inactive one whose name the first contains.
NotifyDbs ==
    { db \in VendorDbs :
        \A i \in 1..Len(db.vendors) :
            /\ db.vendors[i].firm_name \in {Name(Bak), Name(Ba)}
            /\ db.vendors[i].paralegal_rate = Str("200") }

\* The invoices the agent verifies and notifies about.
NotifyInvoices == { inv \in InboxInvoices : inv.invoice_id \in {"INV-1", "INV-2", "INV-3", "INV-5"} }

InitNotify ==
    /\ InitInvoice
    /\ vendor_db \in NotifyDbs

\* Accounts-payable notifications: the agent verifies an invoice and sends
\* the result, the dashboard verifies the inbox and rewrites the log.
NextNotify ==
    \/ \E invoice \in NotifyInvoices : LookupAndVerify(invoice)
    \/ SendApNotification
    \/ \E invoices \in SeqsUpTo(NotifyInvoices, MaxInvoices) :
          RunInvoiceVerification(invoices)

SpecNotify == InitNotify /\ [][NextNotify]_vars

Init == InitVendor \/ InitInvoice \/ InitSelect \/ InitAssign

Next == NextValidate \/ NextVendor \/ NextInvoice \/ NextSelect \/ NextAssign

Spec == Init /\ [][Next]_vars

(***************************************************************************)
(* Claims about the vendor validator and the vendor database.              *)
(***************************************************************************)
\* A field that is present and not empty.
PresentNonEmpty(v) == v.kind = "num" \/ (v.kind = "str" /\ v.s # "")

\* The blocking rules of the validator, read off a record.
RequiredPresent(vendor) ==
    /\ vendor.firm_name.kind = "str" /\ vendor.firm_name.t # <<>>
    /\ PresentNonEmpty(vendor.partner_rate)
    /\ PresentNonEmpty(vendor.associate_rate)
    /\ PresentNonEmpty(vendor.status)
    /\ PresentNonEmpty(vendor.payment_terms)

IsNumber(v) == v.kind = "num" \/ (v.kind = "str" /\ v.s \in DOMAIN NumeralValue)

NumberOf(v) == IF v.kind = "num" THEN v.n ELSE NumeralValue[v.s]

StatusValid(vendor) == vendor.status.kind = "str" /\ vendor.status.s \in {"active", "inactive"}

TermsValid(vendor) ==
    vendor.payment_terms.kind = "str" /\ vendor.payment_terms.s \in {"net_30", "net_45", "net_60"}

BlockingRulesHold(vendor) ==
    /\ RequiredPresent(vendor)
    /\ IsNumber(vendor.partner_rate) /\ NumberOf(vendor.partner_rate) >= 200
    /\ IsNumber(vendor.associate_rate)
    /\ StatusValid(vendor)
    /\ TermsValid(vendor)

Validated == ret.op = "validate_vendor"

Returned == Validated /\ ret.result.raised = "none"

PartnerCapWarnings(warnings) ==
    { i \in 1..Len(warnings) : warnings[i].text = "Partner rate exceeds preferred cap of $800/hr" }

\* C6: every vendor record of the persisted vendor database satisfies all
\* blocking validation rules (required fields present and non-empty, partner
\* rate a number >= 200, associate rate a number, status and payment terms
\* valid), after any sequence of save_vendor_to_database calls and
\* run_vendor_onboarding runs.
C6_PersistedVendorsValid ==
    \A i \in 1..Len(vendor_db.vendors) : BlockingRulesHold(vendor_db.vendors[i])

\* C7, as stated: a record with partner_rate in [200, 800], the required
\* fields present and non-empty and valid status and payment terms is valid
\* with no warning.
C7_AsStated ==
    (/\ Validated
     /\ RequiredPresent(ret.vendor)
     /\ IsNumber(ret.vendor.partner_rate)
     /\ NumberOf(ret.vendor.partner_rate) >= 200
     /\ NumberOf(ret.vendor.partner_rate) <= 800
     /\ StatusValid(ret.vendor) /\ TermsValid(ret.vendor))
    => (/\ ret.result.raised = "none"
        /\ ret.result.is_valid
        /\ ret.result.warnings = <<>>)

\* C7, amended: a record with partner_rate in [200, 800], associate_rate a
\* number greater than 0 and at most 500, the required fields present and
\* non-empty and valid status and payment terms is valid with no warning.
C7_ValidNoWarnings ==
    (/\ Validated
     /\ RequiredPresent(ret.vendor)
     /\ IsNumber(ret.vendor.partner_rate)
     /\ NumberOf(ret.vendor.partner_rate) >= 200
     /\ NumberOf(ret.vendor.partner_rate) <= 800
     /\ IsNumber(ret.vendor.associate_rate)
     /\ NumberOf(ret.vendor.associate_rate) > 0
     /\ NumberOf(ret.vendor.associate_rate) <= 500
     /\ StatusValid(ret.vendor) /\ TermsValid(ret.vendor))
    => (/\ ret.result.raised = "none"
        /\ ret.result.is_valid
        /\ ret.result.warnings = <<>>)

\* A record at the cap (partner rate 800, associate rate 500) was validated
\* and came out valid without a warning.
C7_Witness ==
    /\ Returned
    /\ ret.vendor.partner_rate = Str("800")
    /\ ret.vendor.associate_rate = Str("500")
    /\ ret.result.is_valid
    /\ ret.result.warnings = <<>>

\* C8: a returned result is valid exactly when its errors list is empty, and
\* an otherwise valid record with partner_rate > 800 is valid with exactly
\* one partner-rate-cap warning.
C8_WarningsNeverBlock ==
    Returned =>
        /\ ret.result.is_valid <=> (ret.result.errors = <<>>)
        /\ (/\ RequiredPresent(ret.vendor)
            /\ IsNumber(ret.vendor.partner_rate)
            /\ NumberOf(ret.vendor.partner_rate) > 800
            /\ IsNumber(ret.vendor.associate_rate)
            /\ StatusValid(ret.vendor) /\ TermsValid(ret.vendor))
           => (/\ ret.result.is_valid
               /\ Cardinality(PartnerCapWarnings(ret.result.warnings)) = 1)

\* A record with partner rate 850 and associate rate 600 was validated: valid,
\* with the partner-rate-cap warning among two warnings.
C8_Witness ==
    /\ Returned
    /\ ret.vendor.partner_rate = Str("850")
    /\ ret.vendor.associate_rate = Str("600")
    /\ ret.result.is_valid
    /\ Len(ret.result.warnings) = 2
    /\ Cardinality(PartnerCapWarnings(ret.result.warnings)) = 1

\* C9: for a record whose partner_rate parses as a number below 200,
\* validate_vendor returns is_valid = false, whatever the other fields.
C9_LowPartnerRateInvalid ==
    (/\ Validated
     /\ IsNumber(ret.vendor.partner_rate)
     /\ NumberOf(ret.vendor.partner_rate) < 200)
    => (ret.result.raised = "none" /\ ~ret.result.is_valid)

(***************************************************************************)
(* Claims about invoice verification.                                      *)
(***************************************************************************)
Verified == ret.op = "verify_invoice"

\* run_invoice_verification ran to its return over an existing database.
RanInvoices == ret.op = "run_invoice_verification" /\ ret.raised = "none" /\ ret.error = ""

InvoiceName(invoice) == IF invoice.firm_name.kind = "absent" THEN <<>> ELSE invoice.firm_name.t

\* The vendors whose firm name contains the invoice's, case-insensitively.
Matching(invoice) ==
    { i \in 1..Len(vendor_db.vendors) :
        /\ vendor_db.vendors[i].firm_name.kind = "str"
        /\ Contains(Lower(InvoiceName(invoice)), Lower(vendor_db.vendors[i].firm_name.t)) }

\* The index of the resolved vendor, 0 when none is resolved.
Resolved(invoice) ==
    IF Matching(invoice) = {} THEN 0
    ELSE CHOOSE i \in Matching(invoice) : \A j \in Matching(invoice) : i <= j

ResolvedInactive(invoice) ==
    Resolved(invoice) # 0 /\ vendor_db.vendors[Resolved(invoice)].status = Str("inactive")

\* The disposition the invariant prescribes, given the discrepancy list.
Prescribed(invoice, discrepancies) ==
    IF Resolved(invoice) = 0 \/ ResolvedInactive(invoice) THEN "REJECTED"
    ELSE IF discrepancies # <<>> THEN "FLAGGED"
    ELSE "APPROVED"

WellFormedVendor(vendor) ==
    /\ vendor.firm_name.kind = "str"
    /\ vendor.status.kind # "absent"
    /\ vendor.payment_terms.kind # "absent"
    /\ IsNumber(vendor.partner_rate)
    /\ IsNumber(vendor.associate_rate)
    /\ IsNumber(vendor.paralegal_rate)

WellFormedRoster == \A i \in 1..Len(vendor_db.vendors) : WellFormedVendor(vendor_db.vendors[i])

WellFormedItem(item) ==
    /\ item.level.kind # "null"
    /\ item.rate.kind = "absent" \/ IsNumber(item.rate)
    /\ item.hours.kind \in {"absent", "num"}

WellFormedInvoice(invoice) ==
    \A i \in 1..Len(invoice.line_items) : WellFormedItem(invoice.line_items[i])

\* The invoice ids of the notifications with the given status, in order.
RECURSIVE IdsWithStatus(_, _)
IdsWithStatus(notifications, status) ==
    IF notifications = <<>> THEN <<>>
    ELSE (IF Head(notifications).status = status
          THEN <<Head(notifications).invoice_id>> ELSE <<>>)
         \o IdsWithStatus(Tail(notifications), status)

ContractLevel(item) ==
    IF item.level.kind = "str" /\ ~item.level.ws /\ item.level.w \in {"partner", "associate", "paralegal"}
    THEN item.level.w ELSE ""

\* The rate the resolved vendor's record contracts for a line item.
ContractedFor(invoice, item) ==
    LET vendor == vendor_db.vendors[Resolved(invoice)]
    IN  CASE ContractLevel(item) = "partner" -> NumberOf(Get(vendor.partner_rate, Num(0)))
          [] ContractLevel(item) = "associate" -> NumberOf(Get(vendor.associate_rate, Num(0)))
          [] ContractLevel(item) = "paralegal" -> NumberOf(Get(vendor.paralegal_rate, Num(0)))
          [] OTHER -> 0

BilledRate(item) == NumberOf(Get(item.rate, Num(0)))

BilledHours(item) == Get(item.hours, Num(0)).n

Max0(n) == IF n > 0 THEN n ELSE 0

\* The sum over the line items of max(0, billed - contracted) * hours.
RECURSIVE ZeroFlooredSum(_, _)
ZeroFlooredSum(invoice, i) ==
    IF i > Len(invoice.line_items) THEN 0
    ELSE Max0(BilledRate(invoice.line_items[i]) - ContractedFor(invoice, invoice.line_items[i]))
            * BilledHours(invoice.line_items[i])
         + ZeroFlooredSum(invoice, i + 1)

HoursNonNegative(invoice) ==
    \A i \in 1..Len(invoice.line_items) :
        /\ invoice.line_items[i].hours.kind \in {"absent", "num"}
        /\ BilledHours(invoice.line_items[i]) >= 0

\* The result satisfies the overcharge contract for the invoice.
OverchargeContract(invoice, result) ==
    /\ \A d \in 1..Len(result.discrepancies) : result.discrepancies[d].overcharge_amount >= 0
    /\ result.total_overcharge = ZeroFlooredSum(invoice, 1)

\* C4: for every invoice that passes vendor resolution and the inactive check
\* and whose line-item hours are all >= 0, every recorded discrepancy has an
\* overcharge >= 0 and the aggregate overcharge is the sum over the line items
\* of max(0, billed rate - contracted rate) * hours.
C4_OverchargeSum ==
    /\ (Verified /\ ret.result.has_details /\ HoursNonNegative(ret.invoice)) =>
          OverchargeContract(ret.invoice, ret.result)
    /\ RanInvoices =>
          \A k \in 1..Len(ret.invoices) :
             (ret.notifications[k].status # "REJECTED" /\ HoursNonNegative(ret.invoices[k])) =>
                OverchargeContract(ret.invoices[k], ret.notifications[k])

\* Partner time billed at 700 against a contracted 650 for 10 hours: the
\* overcharge is 500 and the invoice is FLAGGED.
C4_Witness ==
    /\ Verified /\ ret.result.has_details /\ HoursNonNegative(ret.invoice)
    /\ Len(ret.result.discrepancies) = 1
    /\ ret.result.discrepancies[1].billed_rate = 700
    /\ ret.result.discrepancies[1].contracted_rate = 650
    /\ ret.result.discrepancies[1].overcharge_amount = 500
    /\ ret.result.total_overcharge = 500
    /\ ret.result.status = "FLAGGED"

\* The result holds a rejection with nothing computed.
RejectedUncomputed(result) ==
    /\ result.status = "REJECTED"
    /\ result.discrepancies = <<>>
    /\ result.total_overcharge = 0

\* C5: an invoice whose resolved vendor is inactive is REJECTED whatever its
\* line items contain, and no discrepancy or overcharge is computed for it.
C5_InactiveRejected ==
    /\ (Verified /\ ResolvedInactive(ret.invoice)) =>
          RejectedUncomputed(ret.result) /\ ~ret.result.has_details
    /\ RanInvoices =>
          \A k \in 1..Len(ret.invoices) :
             ResolvedInactive(ret.invoices[k]) =>
                /\ RejectedUncomputed(ret.notifications[k])
                /\ ret.notifications[k].action = "DO_NOT_PAY"

\* An invoice with a line item whose rate is no number, billed by an inactive
\* vendor, was REJECTED.
C5_Witness ==
    /\ Verified /\ ResolvedInactive(ret.invoice)
    /\ \E i \in 1..Len(ret.invoice.line_items) : ~IsNumber(ret.invoice.line_items[i].rate)
    /\ ret.result.status = "REJECTED"

(***************************************************************************)
(* Claims about lawyer selection and matter assignment.                    *)
(***************************************************************************)
\* Some lawyer of the roster has the id, and every lawyer that has it is
\* active with free capacity.
Selectable(lawyers, lawyer_id) ==
    /\ \E k \in 1..Len(lawyers) : lawyers[k].lawyer_id = lawyer_id
    /\ \A k \in 1..Len(lawyers) :
          lawyers[k].lawyer_id = lawyer_id =>
             /\ lawyers[k].status = "active"
             /\ lawyers[k].max_caseload - lawyers[k].current_caseload > 0

\* The assignments of the run in progress, or the log it saved.
RunLog(r, db) == IF r.pc = "loop" THEN r.assignments ELSE db.assignments

\* C2: selection never returns a lawyer who is not active or whose available
\* capacity is 0 or less at the moment of selection: every lawyer a
\* find_best_lawyer call returns, and the lawyer each iteration of
\* run_case_assignment picks, is active with free capacity in the roster the
\* selection read.
C2_SelectsAvailable ==
    [][ /\ (ret'.op = "find_best_lawyer" /\ ret'.result.found) =>
              /\ Selectable(lawyers_db.lawyers, ret'.result.recommended_lawyer.lawyer_id)
              /\ \A o \in 1..Len(ret'.result.other_options) :
                    Selectable(lawyers_db.lawyers, ret'.result.other_options[o].lawyer_id)
        /\ (run.pc = "loop" /\ Len(RunLog(run', assignments_db')) > Len(run.assignments)) =>
              Selectable(run.lawyers,
                         RunLog(run', assignments_db')[Len(run.assignments) + 1].assigned_to.lawyer_id)
      ]_vars

\* find_best_lawyer returned a lawyer while another lawyer holding the case
\* type was full or not active.
C2_Witness ==
    /\ ret.op = "find_best_lawyer"
    /\ ret.result.found
    /\ \E k \in 1..Len(lawyers_db.lawyers) :
          /\ WStrip(WLower(ret.case_type)) \in LoweredAreas(lawyers_db.lawyers[k])
          /\ \/ lawyers_db.lawyers[k].status # "active"
             \/ lawyers_db.lawyers[k].current_caseload >= lawyers_db.lawyers[k].max_caseload

\* C3: starting from a roster in which every lawyer has 0 <= current_caseload
\* <= max_caseload, after any sequence of matter-assignment operations every
\* persisted lawyer record has current_caseload <= max_caseload.
C3_CaseloadWithinMax ==
    \A k \in 1..Len(lawyers_db.lawyers) :
        lawyers_db.lawyers[k].current_caseload <= lawyers_db.lawyers[k].max_caseload

\* The two mutually substitutable practice areas.
IpAreas == {Plain("patent_infringement"), Plain("ip_trademark")}

\* An active lawyer with free capacity holds one of the two areas.
IpLawyerFree(lawyers) ==
    \E k \in 1..Len(lawyers) :
        /\ lawyers[k].status = "active"
        /\ lawyers[k].max_caseload - lawyers[k].current_caseload > 0
        /\ LoweredAreas(lawyers[k]) \cap IpAreas # {}

\* C10: when the case type is patent_infringement or ip_trademark, an active
\* lawyer with free capacity holding either of the two practice areas is a
\* candidate: find_best_lawyer finds a lawyer, and run_case_assignment assigns
\* its first matter, whenever such a lawyer exists.
C10_IpAreasSubstitutable ==
    /\ (/\ ret.op = "find_best_lawyer"
        /\ ret.case_type \in IpAreas
        /\ IpLawyerFree(lawyers_db.lawyers)) => ret.result.found
    /\ (/\ ret.op = "run_case_assignment"
        /\ ret.matters # <<>>
        /\ ret.matters[1].case_type \in IpAreas
        /\ IpLawyerFree(ZeroCaseloads(lawyers_db.lawyers))) =>
          /\ ret.assigned # <<>>
          /\ ret.assigned[1].matter_id = ret.matters[1].matter_id

\* The practice areas find_best_lawyer looks for: the case type, lower-cased
\* and trimmed.
FindAreas(case_type) == {WStrip(WLower(case_type))}

\* The practice areas run_case_assignment looks for: the lower-cased case
\* type, and for the two IP case types either of them.
RunAreas(case_type) ==
    IF WLower(case_type) \in IpAreas THEN IpAreas ELSE {WLower(case_type)}

\* The candidate set of a selection: the lawyers that are active, have free
\* capacity and hold one of the practice areas looked for.
Candidates(lawyers, areas) ==
    { k \in 1..Len(lawyers) :
        /\ lawyers[k].status = "active"
        /\ lawyers[k].max_caseload - lawyers[k].current_caseload > 0
        /\ LoweredAreas(lawyers[k]) \cap areas # {} }

\* The lawyer with the id is a candidate that the priority ranks first: most
\* free capacity at priority high, fewest current cases otherwise.
RankedFirst(lawyers, areas, priority, lawyer_id) ==
    \E k \in Candidates(lawyers, areas) :
        /\ lawyers[k].lawyer_id = lawyer_id
        /\ \A j \in Candidates(lawyers, areas) :
              IF priority = "high"
              THEN lawyers[j].max_caseload - lawyers[j].current_caseload
                      <= lawyers[k].max_caseload - lawyers[k].current_caseload
              ELSE lawyers[k].current_caseload <= lawyers[j].current_caseload

\* The matter the next iteration of run_case_assignment works on.
CurrentMatter == run.matters[run.i]

MatterCaseType(matter) ==
    IF matter.case_type.kind = "absent" THEN Plain("") ELSE matter.case_type

MatterPriority(matter) ==
    IF matter.priority.kind = "absent" THEN "medium" ELSE matter.priority.s

\* An iteration of run_case_assignment appended an assignment record.
Assigned == run.pc = "loop" /\ Len(RunLog(run', assignments_db')) > Len(run.assignments)

\* The lawyer of the record the iteration appended.
AssignedLawyer == RunLog(run', assignments_db')[Len(run.assignments) + 1].assigned_to.lawyer_id

\* C11: when the candidate set of a selection is non-empty, a matter with
\* priority high goes to a candidate whose available capacity is maximal
\* among all candidates, and a matter with any other priority to a candidate
\* whose current caseload is minimal among all candidates, in
\* find_best_lawyer and in run_case_assignment.
C11_RankedByPriority ==
    [][ /\ (ret'.op = "find_best_lawyer" /\ ret' # ret
            /\ Candidates(lawyers_db.lawyers, FindAreas(ret'.case_type)) # {}) =>
              /\ ret'.result.found
              /\ RankedFirst(lawyers_db.lawyers, FindAreas(ret'.case_type), ret'.priority,
                             ret'.result.recommended_lawyer.lawyer_id)
        /\ (run.pc = "loop"
            /\ Candidates(run.lawyers, RunAreas(MatterCaseType(CurrentMatter))) # {}) =>
              /\ Assigned
              /\ RankedFirst(run.lawyers, RunAreas(MatterCaseType(CurrentMatter)),
                             MatterPriority(CurrentMatter), AssignedLawyer)
      ]_vars

\* find_best_lawyer, at priority high, passed over a candidate earlier in the
\* roster for one with more free capacity.
C11_Witness ==
    /\ ret.op = "find_best_lawyer" /\ ret.priority = "high" /\ ret.result.found
    /\ \E j, k \in Candidates(lawyers_db.lawyers, FindAreas(ret.case_type)) :
          /\ j < k
          /\ lawyers_db.lawyers[k].lawyer_id = ret.result.recommended_lawyer.lawyer_id
          /\ lawyers_db.lawyers[j].max_caseload - lawyers_db.lawyers[j].current_caseload
                < ret.result.recommended_lawyer.available_capacity

\* The number of records of the log assigned to the lawyer.
RECURSIVE AssignedTo(_, _)
AssignedTo(assignments, lawyer_id) ==
    IF assignments = <<>> THEN 0
    ELSE (IF Head(assignments).assigned_to.lawyer_id = lawyer_id THEN 1 ELSE 0)
         + AssignedTo(Tail(assignments), lawyer_id)

\* C12: after assigner runs that start with all caseloads at zero, each
\* lawyer's persisted current_caseload equals the number of records of the
\* assignment log assigned to that lawyer.
C12_CaseloadCountsAssignments ==
    \A k \in 1..Len(lawyers_db.lawyers) :
        lawyers_db.lawyers[k].current_caseload =
            AssignedTo(assignments_db.assignments, lawyers_db.lawyers[k].lawyer_id)

\* Two assignments to one lawyer have raised that lawyer's caseload to 2.
C12_Witness ==
    \E k \in 1..Len(lawyers_db.lawyers) :
        /\ lawyers_db.lawyers[k].current_caseload = 2
        /\ AssignedTo(assignments_db.assignments, lawyers_db.lawyers[k].lawyer_id) = 2

\* The second roster is the first with the caseload of the lawyer with the id
\* raised by 1 and nothing else changed.
OnlyCaseloadRaised(before, after, lawyer_id) ==
    /\ Len(after) = Len(before)
    /\ \E c \in 1..Len(before) :
          /\ before[c].lawyer_id = lawyer_id
          /\ after[c] = [before[c] EXCEPT !.current_caseload = before[c].current_caseload + 1]
          /\ \A k \in 1..Len(before) : k # c => after[k] = before[k]

\* The second roster holds the lawyers of the first, in their order, with the
\* same fields, and differs from it in caseloads only.
CaseloadsOnly(before, after) ==
    /\ Len(after) = Len(before)
    /\ \A k \in 1..Len(before) :
          /\ DOMAIN after[k] = DOMAIN before[k]
          /\ after[k] = [before[k] EXCEPT !.current_caseload = after[k].current_caseload]

RosterOf(r, db) == IF r.pc = "loop" THEN r.lawyers ELSE db.lawyers

\* C13: a successful assignment changes, in the lawyer roster, only the
\* current_caseload of the chosen lawyer, by +1: every other field, every
\* other lawyer, the order and the membership of the roster are unchanged,
\* and no derived field is persisted.
C13_OnlyCaseloadChanges ==
    [][ /\ (ret'.op = "assign_matter_to_lawyer" /\ ret' # ret /\ ret'.success) =>
              OnlyCaseloadRaised(lawyers_db.lawyers, lawyers_db'.lawyers, ret'.lawyer_id)
        /\ Assigned =>
              OnlyCaseloadRaised(run.lawyers, RosterOf(run', lawyers_db'), AssignedLawyer)
        /\ CaseloadsOnly(lawyers_db.lawyers, lawyers_db'.lawyers)
      ]_vars

\* get_internal_lawyers has returned the derived fields, and an assignment
\* has been made on the roster it read.
C13_Witness ==
    /\ ret.op = "get_internal_lawyers"
    /\ \E k \in 1..Len(ret.lawyers) : ret.lawyers[k].is_available
    /\ assignments_db.assignments # <<>>

\* The practice areas the design accepts for a case type: the case type
\* lower-cased and trimmed, and for the two IP case types either of them.
Acceptable(case_type) ==
    IF WStrip(WLower(case_type)) \in IpAreas THEN IpAreas ELSE {WStrip(WLower(case_type))}

\* The matter ids the run has reported unassigned so far.
UnassignedOf(r, reply) == IF r.pc = "loop" THEN r.unassigned ELSE reply.unassigned

\* C14: when no lawyer is active, has free capacity and holds an acceptable
\* practice area for the case type, the matter ends unassigned as a reported
\* outcome: find_best_lawyer answers found = false and writes nothing;
\* run_case_assignment reports the matter unassigned, appends no assignment
\* record and changes no caseload.
C14_NoCandidateUnassigned ==
    [][ /\ (ret'.op = "find_best_lawyer" /\ ret' # ret
            /\ Candidates(lawyers_db.lawyers, Acceptable(ret'.case_type)) = {}) =>
              /\ ~ret'.result.found
              /\ UNCHANGED <<lawyers_db, assignments_db>>
        /\ (run.pc = "loop"
            /\ Candidates(run.lawyers, Acceptable(MatterCaseType(CurrentMatter))) = {}) =>
              /\ ~Assigned
              /\ RosterOf(run', lawyers_db') = run.lawyers
              /\ UnassignedOf(run', ret') = Append(run.unassigned, CurrentMatter.matter_id)
      ]_vars

\* A run has assigned one matter and reported the antitrust matter, which no
\* lawyer lists, unassigned.
C14_Witness ==
    /\ ret.op = "run_case_assignment"
    /\ ret.assigned # <<>>
    /\ \E u \in 1..Len(ret.unassigned) : ret.unassigned[u] = "MTR-4"
    /\ Len(assignments_db.assignments) = Len(ret.assigned)

\* No two records of the log are for the same matter.
OneRecordPerMatter(assignments) ==
    \A i, j \in 1..Len(assignments) :
        i < j => assignments[i].matter_id # assignments[j].matter_id

\* Every matter of the list has one outcome, and no matter has both.
OneOutcomeEach(matters, assigned, unassigned) ==
    /\ Len(assigned) + Len(unassigned) = Len(matters)
    /\ \A a \in 1..Len(assigned), u \in 1..Len(unassigned) :
          assigned[a].matter_id # unassigned[u]

\* C15: within an assigner run every matter gets exactly one of the outcomes
\* assigned and unassigned and keeps it: the outcomes number as many as the
\* matters processed, no matter has both, and the assignment log holds at
\* most one record per matter.
C15_OneOutcomePerMatter ==
    /\ OneRecordPerMatter(assignments_db.assignments)
    /\ run.pc = "loop" =>
          /\ Len(run.assigned) + Len(run.unassigned) = run.i - 1
          /\ OneRecordPerMatter(run.assignments)
    /\ ret.op = "run_case_assignment" =>
          OneOutcomeEach(ret.matters, ret.assigned, ret.unassigned)

\* The roster with every caseload at zero.
Reset(lawyers) == [k \in 1..Len(lawyers) |-> [lawyers[k] EXCEPT !.current_caseload = 0]]

\* The outcome of the assignment algorithm on a matter list and a roster.
RECURSIVE Outcome(_)
Outcome(r) == IF r.i > Len(r.matters) THEN r ELSE Outcome(ProcessMatter(r))

FromReset(matters, lawyers) ==
    Outcome([pc |-> "loop", matters |-> matters, i |-> 1, lawyers |-> Reset(lawyers),
             assignments |-> <<>>, assigned |-> <<>>, unassigned |-> <<>>])

ResetStep == ret'.op = "reset_demo_data" /\ run' = run

\* C17: the assignment algorithm never resets or decreases a lawyer's current
\* caseload: persisted caseloads decrease through the reset operation only,
\* and a run of the assigner starts from the caseloads the store holds.
C17_OnlyResetDecreases ==
    [][ /\ ~ResetStep =>
              \A k \in 1..Len(lawyers_db.lawyers) :
                  lawyers_db'.lawyers[k].current_caseload
                      >= lawyers_db.lawyers[k].current_caseload
        /\ (run.pc = "idle" /\ run'.pc = "loop") => run'.lawyers = lawyers_db.lawyers
      ]_vars

(***************************************************************************)
(* Claims about vendor identifiers, notifications and vendor resolution.   *)
(***************************************************************************)
\* The i-th vendor of the store has id VND-(1000+i), the ids are distinct and
\* next_id is 1001 plus the number of vendors.
SequentialIds(db) ==
    db.exists =>
        /\ \A i \in 1..Len(db.vendors) :
              db.vendors[i].vendor_id = [prefix |-> "VND-", n |-> 1000 + i]
        /\ \A i, j \in 1..Len(db.vendors) :
              i # j => db.vendors[i].vendor_id # db.vendors[j].vendor_id
        /\ db.next_id = 1001 + Len(db.vendors)

\* C18: in every state of the vendor store reachable from an absent store
\* through save_vendor_to_database and run_vendor_onboarding, the i-th
\* vendor has id VND-(1000+i), all ids are distinct and next_id is 1001 plus
\* the number of vendors; a save leaves the records already stored, ids
\* included, as they are.
C18_SequentialVendorIds ==
    [][ /\ SequentialIds(vendor_db')
        /\ (ret'.op = "save_vendor_to_database" /\ ret' # ret) =>
              /\ Len(vendor_db'.vendors) = Len(vendor_db.vendors) + 1
              /\ SubSeq(vendor_db'.vendors, 1, Len(vendor_db.vendors)) = vendor_db.vendors
              /\ ret'.vendor_id = [prefix |-> "VND-", n |-> 1000 + Len(vendor_db'.vendors)]
      ]_vars

\* A vendor was saved as VND-1002 into a store that held one vendor.
C18_Witness ==
    /\ ret.op = "save_vendor_to_database"
    /\ ret.vendor_id = [prefix |-> "VND-", n |-> 1002]
    /\ Len(vendor_db.vendors) = 2
    /\ vendor_db.next_id = 1003

\* The action a notification asks for: "action_required" as the agent writes
\* it, "action" as the dashboard does.
ActionOf(n) ==
    IF "action_required" \in DOMAIN n THEN n.action_required ELSE n.action

\* The action of a notification agrees with its status.
ActionAgrees(n) ==
    /\ ActionOf(n) = "RELEASE_PAYMENT" <=> n.status = "APPROVED"
    /\ n.status = "FLAGGED" => ActionOf(n) = "HOLD_PAYMENT"
    /\ n.status = "REJECTED" => ActionOf(n) \in {"HOLD_PAYMENT", "DO_NOT_PAY"}

\* C19: every AP notification has action RELEASE_PAYMENT iff its status is
\* APPROVED; a FLAGGED invoice gets HOLD_PAYMENT and a REJECTED one a hold or
\* do-not-pay action, whether send_ap_notification or
\* run_invoice_verification wrote it.
C19_ReleaseIffApproved ==
    /\ \A i \in 1..Len(ap_notifications.notifications) :
          ActionAgrees(ap_notifications.notifications[i])
    /\ ret.op = "run_invoice_verification" =>
          \A i \in 1..Len(ret.notifications) : ActionAgrees(ret.notifications[i])

\* send_ap_notification has added a FLAGGED notification on hold to a log
\* that holds a released one.
C19_Witness ==
    /\ ret.op = "send_ap_notification"
    /\ \E i, j \in 1..Len(ap_notifications.notifications) :
          /\ ap_notifications.notifications[i].status = "APPROVED"
          /\ ActionOf(ap_notifications.notifications[i]) = "RELEASE_PAYMENT"
          /\ ap_notifications.notifications[j].status = "FLAGGED"
          /\ ActionOf(ap_notifications.notifications[j]) = "HOLD_PAYMENT"

\* The agent's verdict on an invoice no vendor matches.
NotFoundVerdict(lookup, result) ==
    /\ ~lookup.found
    /\ RejectedUncomputed(result)
    /\ result.reason = "Vendor not found in database"

\* C20: vendor resolution picks the first vendor in roster order whose firm
\* name contains the invoice's firm name, case-insensitively; an invoice no
\* vendor matches is REJECTED as vendor-not-found with no line item
\* processed.
C20_FirstMatchResolved ==
    /\ Verified =>
          IF Resolved(ret.invoice) = 0
          THEN NotFoundVerdict(ret.vendor, ret.result)
          ELSE /\ ret.vendor.found
               /\ ret.vendor.vendor_id = vendor_db.vendors[Resolved(ret.invoice)].vendor_id
    /\ (/\ ret.op = "run_invoice_verification"
        /\ vendor_db.exists
        /\ \A k \in 1..Len(ret.invoices) : WellFormedInvoice(ret.invoices[k])) =>
          /\ ret.raised = "none"
          /\ \A k \in 1..Len(ret.invoices) :
                LET n == ret.notifications[k]
                IN  /\ Resolved(ret.invoices[k]) = 0 =>
                         /\ RejectedUncomputed(n)
                         /\ n.reason = "Vendor not in database"
                    /\ Resolved(ret.invoices[k]) # 0 =>
                         ~(n.status = "REJECTED" /\ n.reason = "Vendor not in database")

(***************************************************************************)
(* Claims about hours, prerequisites and input errors.                     *)
(***************************************************************************)
\* The hours a line item may carry: none, zero, negative, and values on both
\* sides of the two warning thresholds.
HoursValues == {Absent, Num(0), Num(0 - 3), Num(5), Num(12), Num(25)}

\* Every line item's hours is a number or is missing.
HoursNumeric(invoice) ==
    \A i \in 1..Len(invoice.line_items) :
        invoice.line_items[i].hours.kind \in {"absent", "num"}

\* The invoice with the hours of its line items replaced by hs.
WithHours(invoice, hs) ==
    [invoice EXCEPT !.line_items =
        [i \in 1..Len(invoice.line_items) |-> [invoice.line_items[i] EXCEPT !.hours = hs[i]]]]

\* The invoices identical to invoice except for the hours of their line items.
HoursVariants(invoice) ==
    { WithHours(invoice, hs) : hs \in [1..Len(invoice.line_items) -> HoursValues] }

\* The disposition the agent's tools give an invoice on the current roster.
AgentStatus(invoice) ==
    verify_invoice(invoice, lookup_vendor_rates(invoice.firm_name.t)).status

\* The disposition the dashboard gives an invoice on the current roster,
\* "RAISED" when the run raises.
AppStatus(invoice) ==
    LET r == AppInvoices(<<invoice>>, 1, vendor_db.vendors, NoResults)
    IN  IF r.exc # "none" THEN "RAISED" ELSE r.notifications[1].status

\* C21: the disposition of an invoice does not depend on line-item hours: an
\* invoice that differs from a verified one in the hours of its line items
\* only gets the same disposition on the same roster, by the agent's tools
\* and by run_invoice_verification.
C21_HoursNeverChangeDisposition ==
    /\ (Verified /\ HoursNumeric(ret.invoice)) =>
          \A other \in HoursVariants(ret.invoice) :
             AgentStatus(other) = ret.result.status
    /\ RanInvoices =>
          \A k \in 1..Len(ret.invoices) :
             HoursNumeric(ret.invoices[k]) =>
                \A other \in HoursVariants(ret.invoices[k]) :
                   AppStatus(other) = ret.notifications[k].status

\* An invoice carrying an hours warning was verified and APPROVED, and with
\* other hours it carries other warnings.
C21_Witness ==
    /\ Verified /\ HoursNumeric(ret.invoice)
    /\ ret.result.status = "APPROVED"
    /\ Len(ret.result.warnings) >= 1
    /\ \E other \in HoursVariants(ret.invoice) :
          verify_invoice(other, ret.vendor).warnings # ret.result.warnings

\* run_invoice_verification stopped on the missing roster: nothing disposed
\* of, nothing notified.
StoppedOnPrerequisite ==
    /\ ret.error = "Run Agent 1 first"
    /\ ret.approved = <<>> /\ ret.flagged = <<>> /\ ret.rejected = <<>>
    /\ ret.notifications = <<>>

Unparsable(v) == v.kind # "absent" /\ ~IsNumber(v)

\* C24: validate_vendor returns a structured result for every input record
\* and never raises; a partner_rate or associate_rate that cannot be parsed
\* as a number yields an error entry and is_valid = false.
C24_ValidateNeverRaises ==
    Validated =>
        /\ ret.result.raised = "none"
        /\ (Unparsable(ret.vendor.partner_rate) \/ Unparsable(ret.vendor.associate_rate)) =>
              /\ ~ret.result.is_valid
              /\ Len(ret.result.errors) >= 1

\* A line item of the invoice carries a rate that cannot be parsed.
RateUnparsable(invoice) ==
    \E i \in 1..Len(invoice.line_items) : Unparsable(invoice.line_items[i].rate)

\* The notification log holds a notification with a disposition for invoice.
NotifiedOf(invoice) ==
    \E j \in 1..Len(ap_notifications.notifications) :
        /\ ap_notifications.notifications[j].invoice_id = invoice.invoice_id
        /\ ap_notifications.notifications[j].status \in {"APPROVED", "FLAGGED", "REJECTED"}

\* C23: a structural input error inside one record aborts that record only
\* and is reported, never coerced into a normal result; every other invoice
\* of the same run still receives its disposition and its notification is
\* persisted.
C23_ErrorAbortsOneRecord ==
    /\ (/\ Verified
        /\ ret.vendor.found /\ ret.vendor.status # Str("inactive")
        /\ RateUnparsable(ret.invoice)) =>
          ret.result.status = "ERROR"
    /\ (ret.op = "run_invoice_verification" /\ vendor_db.exists /\ WellFormedRoster) =>
          \A k \in 1..Len(ret.invoices) :
             WellFormedInvoice(ret.invoices[k]) => NotifiedOf(ret.invoices[k])

(***************************************************************************)
(* Claims about case-type matching, line-item levels and ties.             *)
(***************************************************************************)
\* The case types that differ from case_type in letter case or surrounding
\* whitespace only.
CaseVariants(case_type) ==
    { Word(case_type.w, caps, ws) : caps \in BOOLEAN, ws \in BOOLEAN }

\* The run with the case type of the matter at hand replaced.
WithCaseType(r, case_type) == [r EXCEPT !.matters[r.i].case_type = case_type]

\* C25: case-type matching is insensitive to letter case and to leading or
\* trailing whitespace: a matter whose case type differs from the one at hand
\* in case or surrounding whitespace only gets the same candidates and the
\* same selected lawyer from the same roster state, in find_best_lawyer and
\* in run_case_assignment.
C25_CaseTypeNormalised ==
    /\ ret.op = "find_best_lawyer" =>
          \A other \in CaseVariants(ret.case_type) :
             find_best_lawyer(other, ret.priority) = ret.result
    /\ (run.pc = "loop" /\ CurrentMatter.case_type.kind = "str") =>
          \A other \in CaseVariants(CurrentMatter.case_type) :
             LET r == ProcessMatter(WithCaseType(run, other))
             IN  /\ r.lawyers = ProcessMatter(run).lawyers
                 /\ Len(r.assignments) = Len(ProcessMatter(run).assignments)

\* The line items billed above the rate the resolved vendor contracts.
ItemsOver(invoice) ==
    { i \in 1..Len(invoice.line_items) :
        BilledRate(invoice.line_items[i]) > ContractedFor(invoice, invoice.line_items[i]) }

\* The discrepancies of the result are those of the line items billed above
\* contract, one each and in order, and one at an unknown level is a full
\* overcharge against contracted rate 0.
RatesChecked(invoice, result) ==
    /\ { result.discrepancies[d].item : d \in 1..Len(result.discrepancies) } = ItemsOver(invoice)
    /\ \A d, e \in 1..Len(result.discrepancies) :
          d < e => result.discrepancies[d].item < result.discrepancies[e].item
    /\ \A d \in 1..Len(result.discrepancies) :
          LET item == invoice.line_items[result.discrepancies[d].item]
          IN  ContractLevel(item) = "" =>
                 /\ result.discrepancies[d].contracted_rate = 0
                 /\ result.discrepancies[d].overcharge_amount =
                       BilledRate(item) * BilledHours(item)

\* C26: a line item whose level is not partner, associate or paralegal is
\* checked against contracted rate 0, so a billed rate > 0 at such a level is
\* recorded as a discrepancy with overcharge billed_rate * hours; a line item
\* with billed_rate <= contracted_rate (0 against 0 included) records no
\* discrepancy.
C26_UnknownLevelFullOvercharge ==
    /\ (Verified /\ ret.result.has_details) => RatesChecked(ret.invoice, ret.result)
    /\ RanInvoices =>
          \A k \in 1..Len(ret.invoices) :
             ret.notifications[k].status # "REJECTED" =>
                RatesChecked(ret.invoices[k], ret.notifications[k])

\* An invoice with a partner item at the contracted rate and an item at an
\* unknown level was verified: the second item alone is a discrepancy, for
\* its full amount.
C26_Witness ==
    /\ Verified /\ ret.result.has_details
    /\ Len(ret.invoice.line_items) = 2
    /\ ContractLevel(ret.invoice.line_items[1]) = "partner"
    /\ BilledRate(ret.invoice.line_items[1]) = ContractedFor(ret.invoice, ret.invoice.line_items[1])
    /\ ContractLevel(ret.invoice.line_items[2]) = ""
    /\ Len(ret.result.discrepancies) = 1
    /\ ret.result.discrepancies[1].item = 2
    /\ ret.result.discrepancies[1].overcharge_amount = 200

\* The value the priority ranks a lawyer by, smaller first.
RankOf(lawyer, priority) ==
    IF priority = "high" THEN lawyer.current_caseload - lawyer.max_caseload
    ELSE lawyer.current_caseload

\* The lawyer with the id is the first in roster order among the candidates
\* the priority ranks best.
FirstOfBest(lawyers, areas, priority, lawyer_id) ==
    \E k \in Candidates(lawyers, areas) :
        /\ lawyers[k].lawyer_id = lawyer_id
        /\ \A j \in Candidates(lawyers, areas) :
              \/ RankOf(lawyers[k], priority) < RankOf(lawyers[j], priority)
              \/ RankOf(lawyers[k], priority) = RankOf(lawyers[j], priority) /\ k <= j

\* C27: when several candidates tie on the ranking key, the one that comes
\* first in roster order is chosen, under the high-priority policy and under
\* the normal-priority policy, in find_best_lawyer and in
\* run_case_assignment.
C27_TiesInRosterOrder ==
    [][ /\ (ret'.op = "find_best_lawyer" /\ ret' # ret /\ ret'.result.found) =>
              FirstOfBest(lawyers_db.lawyers, FindAreas(ret'.case_type), ret'.priority,
                          ret'.result.recommended_lawyer.lawyer_id)
        /\ Assigned =>
              FirstOfBest(run.lawyers, RunAreas(MatterCaseType(CurrentMatter)),
                          MatterPriority(CurrentMatter), AssignedLawyer)
      ]_vars

\* find_best_lawyer chose the earlier of two candidates with the same free
\* capacity at priority high.
C27_Witness ==
    /\ ret.op = "find_best_lawyer" /\ ret.priority = "high" /\ ret.result.found
    /\ \E j, k \in Candidates(lawyers_db.lawyers, FindAreas(ret.case_type)) :
          /\ j < k
          /\ lawyers_db.lawyers[j].lawyer_id = ret.result.recommended_lawyer.lawyer_id
          /\ RankOf(lawyers_db.lawyers[j], "high") = RankOf(lawyers_db.lawyers[k], "high")

(***************************************************************************)
(* Claims about the two stores of an assignment and the notification log.  *)
(***************************************************************************)
\* The second sequence is the first with one element appended.
OneAppended(before, after) ==
    Len(after) = Len(before) + 1 /\ SubSeq(after, 1, Len(before)) = before

\* C28: assign_matter_to_lawyer is all-or-nothing over the two stores: it
\* appends exactly one assignment record, raises exactly one lawyer's caseload
\* by 1 and returns success true, or it returns success false and neither the
\* assignment log nor the lawyer roster has changed.
C28_AssignAllOrNothing ==
    [][ ret'.op = "assign_matter_to_lawyer" =>
          IF ret'.success
          THEN /\ OneAppended(assignments_db.assignments, assignments_db'.assignments)
               /\ OnlyCaseloadRaised(lawyers_db.lawyers, lawyers_db'.lawyers, ret'.lawyer_id)
          ELSE UNCHANGED <<assignments_db, lawyers_db>>
      ]_vars

\* The log after a run over the inbox: one notification per invoice, in inbox
\* order, numbered AP-0001 onwards, every invoice in one of the three lists.
C29_RunPart ==
    (ret'.op = "run_invoice_verification" /\ vendor_db.exists) =>
          /\ Len(ap_notifications'.notifications) = Len(ret'.invoices)
          /\ \A k \in 1..Len(ret'.invoices) :
                /\ ap_notifications'.notifications[k].invoice_id = ret'.invoices[k].invoice_id
                /\ ap_notifications'.notifications[k].notification_id = NotificationId(k)
          /\ Len(ret'.approved) + Len(ret'.flagged) + Len(ret'.rejected) = Len(ret'.invoices)

\* A send appended one notification with the next id.
C29_SendPart ==
    ret'.op = "send_ap_notification" =>
          /\ OneAppended(ap_notifications.notifications, ap_notifications'.notifications)
          /\ ap_notifications'.notifications[Len(ap_notifications'.notifications)].notification_id
                = NotificationId(Len(ap_notifications.notifications) + 1)
          /\ ret'.notification_id = NotificationId(Len(ap_notifications.notifications) + 1)

\* C29: after run_invoice_verification over n invoices the notification log
\* holds exactly n notifications in inbox order with ids AP-0001 .. AP-n and
\* approved + flagged + rejected = n, and every send_ap_notification call
\* appends exactly one notification with the next sequential id without
\* altering any earlier notification.
C29_LogAppendOnly == [][C29_RunPart /\ C29_SendPart]_vars

\* The invoice names no firm: its firm name is empty or missing.
NamesNoFirm(invoice) == InvoiceName(invoice) = <<>>

\* The verdict on an invoice verified against the first vendor of the roster:
\* REJECTED for an inactive vendor, by the rates otherwise.
AgainstFirstVendor(result) ==
    LET first == vendor_db.vendors[1]
    IN  IF first.status = Str("inactive")
        THEN result.status = "REJECTED" /\ result.reason = "Vendor is INACTIVE"
        ELSE result.status \in {"APPROVED", "FLAGGED", "ERROR"}

\* C30: an invoice whose firm name is the empty string (or is missing, in
\* run_invoice_verification) is never rejected as vendor-not-found when the
\* roster is non-empty: it resolves to the first vendor in roster order and
\* is verified against that vendor's status and rates.
C30_EmptyNameResolvesFirst ==
    /\ (Verified /\ NamesNoFirm(ret.invoice) /\ vendor_db.vendors # <<>>) =>
          /\ ret.vendor.found
          /\ ret.vendor.vendor_id = vendor_db.vendors[1].vendor_id
          /\ AgainstFirstVendor(ret.result)
    /\ (/\ ret.op = "run_invoice_verification"
        /\ vendor_db.vendors # <<>>
        /\ \A k \in 1..Len(ret.invoices) : WellFormedInvoice(ret.invoices[k])
        /\ \E k \in 1..Len(ret.invoices) : NamesNoFirm(ret.invoices[k])) =>
          /\ ret.raised = "none"
          /\ \A k \in 1..Len(ret.invoices) :
                NamesNoFirm(ret.invoices[k]) => AgainstFirstVendor(ret.notifications[k])

====
